---- MODULE Spec2Model ----
(***************************************************************************)
(* Ebook organizer backend: the classification chain (taxonomy matching,   *)
(* author validation, classify_book), the organization service (single and *)
(* batch classification, manual updates) and the file reorganization       *)
(* planner/executor, modelled from app/services/*.py and                   *)
(* app/routes/organization.py.                                             *)
(*                                                                         *)
(* Python str values are TLA+ strings; TLC evaluates Len, SubSeq, Head,    *)
(* Tail and \o on them, which is all the string functions below use.       *)
(* Python's None is the value None below; "" is the empty string.          *)
(***************************************************************************)
EXTENDS Integers, Sequences, FiniteSets, TLC

\* ---------------------------------------------------------------------------
\* Python values and str methods
\* ---------------------------------------------------------------------------

\* Python's None (for Optional[str] values); never a member of an input set of strings.
None ==
  "<None>"

\* The element of a one-element set.  TheOne({e(v) : v \in {x}}) is e(x) with x
\* evaluated once, however often e uses it.
TheOne(S) ==
  CHOOSE r \in S : TRUE

\* Python truthiness of an Optional[str]: neither None nor "".
Truthy(x) ==
  x # None /\ x # ""

CharAt(s, i) ==
  SubSeq(s, i, i)

UPPERCASE ==
  "ABCDEFGHIJKLMNOPQRSTUVWXYZ"

LOWERCASE ==
  "abcdefghijklmnopqrstuvwxyz"

DIGITS ==
  "0123456789"

\* The set of the characters of the string chars.
CharSet(chars) ==
  {CharAt(chars, i) : i \in 1..Len(chars)}

UpperSet ==
  CharSet(UPPERCASE)

LowerSet ==
  CharSet(LOWERCASE)

DigitSet ==
  CharSet(DIGITS)

\* c is one of the characters of the string chars.
CharIn(c, chars) ==
  \E i \in 1..Len(chars) : CharAt(chars, i) = c

\* The lower-case letter of every upper-case letter, and conversely.
ToLower ==
  [c \in UpperSet |-> CharAt(LOWERCASE, CHOOSE i \in 1..26 : CharAt(UPPERCASE, i) = c)]

ToUpper ==
  [c \in LowerSet |-> CharAt(UPPERCASE, CHOOSE i \in 1..26 : CharAt(LOWERCASE, i) = c)]

LowerChar(c) ==
  IF c \in UpperSet THEN ToLower[c] ELSE c

UpperChar(c) ==
  IF c \in LowerSet THEN ToUpper[c] ELSE c

RECURSIVE Cat(_, _, _)
\* ''.join(f[lo], ..., f[hi]), by halving the range.
Cat(f, lo, hi) ==
  IF lo > hi THEN ""
  ELSE IF lo = hi THEN f[lo]
  ELSE TheOne({(Cat(f, lo, m) \o Cat(f, m + 1, hi)) : m \in {(lo + hi) \div 2}})

\* str.lower()
lower(str) ==
  TheOne({(Cat([i \in 1..Len(s) |-> LowerChar(CharAt(s, i))], 1, Len(s))) : s \in {str}})

\* str.upper()
upper(str) ==
  TheOne({(Cat([i \in 1..Len(s) |-> UpperChar(CharAt(s, i))], 1, Len(s))) : s \in {str}})

Whitespace ==
  {" ", "\t", "\n", "\r", "\f"}

\* c.isspace()
IsSpace(c) ==
  c \in Whitespace

IsDigit(c) ==
  c \in DigitSet

\* \w of Python's re for the characters of the model: letters, digits, underscore.
WordChars ==
  UpperSet \cup LowerSet \cup DigitSet \cup {"_"}

IsWordChar(c) ==
  c \in WordChars

RECURSIVE lstrip(_)
lstrip(s) ==
  IF s # "" /\ IsSpace(Head(s)) THEN lstrip(Tail(s)) ELSE s

RECURSIVE rstrip(_)
rstrip(s) ==
  TheOne({(
    IF n > 0 /\ IsSpace(CharAt(s, n)) THEN rstrip(SubSeq(s, 1, n - 1)) ELSE s) : n \in {Len(s)}})

\* str.strip()
strip(s) ==
  TheOne({(lstrip(t)) : t \in {rstrip(s)}})

RECURSIVE rstripChars(_, _)
\* str.rstrip(chars)
rstripChars(s, chars) ==
  TheOne({(
    IF n > 0 /\ CharIn(CharAt(s, n), chars) THEN rstripChars(SubSeq(s, 1, n - 1), chars) ELSE s) : n \in {Len(s)}})

\* sub in s
Contains(s, sub) ==
  TheOne({(
    \E i \in 1..(Len(a[1]) - a[3] + 1) : SubSeq(a[1], i, i + a[3] - 1) = a[2]) : a \in {<<s, sub, Len(sub)>>}})

\* s.startswith(p)
StartsWith(s, p) ==
  Len(s) >= Len(p) /\ SubSeq(s, 1, Len(p)) = p

\* s.endswith(p)
EndsWith(s, p) ==
  Len(s) >= Len(p) /\ SubSeq(s, Len(s) - Len(p) + 1, Len(s)) = p

\* s[i:] with a 1-based i
From(s, i) ==
  SubSeq(s, i, Len(s))

\* s.replace(old, new) for a single character old
replaceChar(str, old, new) ==
  TheOne({(Cat([i \in 1..Len(s) |-> IF CharAt(s, i) = old THEN new ELSE CharAt(s, i)], 1, Len(s))) : s \in {str}})

\* Every character of s satisfies the digit class and s is not empty: ^\d+$
AllDigits(s) ==
  TheOne({(t # "" /\ \A i \in 1..Len(t) : IsDigit(CharAt(t, i))) : t \in {s}})

\* Index of the last occurrence of the character c in s, 0 if there is none (str.rfind + 1).
LastIndexOf(s, c) ==
  TheOne({(
    IF \E i \in 1..Len(t) : CharAt(t, i) = c
    THEN CHOOSE i \in 1..Len(t) : CharAt(t, i) = c /\ \A j \in (i + 1)..Len(t) : CharAt(t, j) # c
    ELSE 0) : t \in {s}})

\* Index of the first occurrence of the string sub in s at or after position from, 0 if none.
IndexOfFrom(s, sub, from) ==
  TheOne({(
    IF \E i \in a[3]..(Len(a[1]) - a[2] + 1) : SubSeq(a[1], i, i + a[2] - 1) = sub
    THEN CHOOSE i \in a[3]..(Len(a[1]) - a[2] + 1) :
           /\ SubSeq(a[1], i, i + a[2] - 1) = sub
           /\ \A j \in a[3]..(i - 1) : SubSeq(a[1], j, j + a[2] - 1) # sub
    ELSE 0) : a \in {<<s, Len(sub), from>>}})

RECURSIVE split(_)
\* str.split(): the whitespace-separated words of s
split(s) ==
  TheOne({(
    IF t = "" THEN <<>>
    ELSE TheOne({(<<SubSeq(t, 1, n - 1)>> \o split(From(t, n))) : n \in {IF \E i \in 1..Len(t) : IsSpace(CharAt(t, i))
              THEN CHOOSE i \in 1..Len(t) :
                     IsSpace(CharAt(t, i)) /\ \A j \in 1..(i - 1) : ~IsSpace(CharAt(t, j))
              ELSE Len(t) + 1}})) : t \in {lstrip(s)}})

RECURSIVE joinWords(_)
\* ' '.join(words)
joinWords(words) ==
  IF words = <<>> THEN ""
  ELSE IF Len(words) = 1 THEN words[1]
  ELSE words[1] \o " " \o joinWords(Tail(words))

\* The length of the run of characters of the class cs starting at position i of s.
RunOf(s, i, cs) ==
  TheOne({(
    IF others # {} THEN (CHOOSE j \in others : \A k \in others : j <= k) - i
    ELSE Len(s) - i + 1) : others \in {{j \in i..Len(s) : CharAt(s, j) \notin cs}}})

\* The length of the run of whitespace starting at position i of s.
SpaceRun(s, i) ==
  RunOf(s, i, Whitespace)

RECURSIVE MatchStarts(_, _)
\* Where the successive matches of re.sub start from position i on: lens[j] is the
\* length of the pattern's match starting at position j (0 if none), and the
\* search resumes behind each match.
MatchStarts(lens, i) ==
  TheOne({(
    IF c = {} THEN {}
    ELSE TheOne({({m} \cup MatchStarts(lens, m + lens[m])) : m \in {CHOOSE m \in c : \A k \in c : m <= k}})) : c \in {{j \in i..Len(lens) : lens[j] > 0}}})

\* re.sub over s: every match becomes repl, every other character stays.
ReplaceMatches(s, lens, repl) ==
  TheOne({(
    Cat([i \in 1..Len(s) |->
           IF i \in starts THEN repl
           ELSE IF \E m \in starts : m < i /\ i < m + lens[m] THEN ""
           ELSE CharAt(s, i)], 1, Len(s))) : starts \in {MatchStarts(lens, 1)}})

\* f with f[k] = v (dict item assignment)
Put(f, k, v) ==
  [x \in DOMAIN f \cup {k} |-> IF x = k THEN v ELSE f[x]]

TAXONOMY ==
  <<
    [name |-> "Fiction", subgenres |-> <<
      [name |-> "Fantasy", aliases |-> <<
          "fantasy", "fantasy fiction", "epic fantasy", "urban fantasy", "high fantasy",
          "dark fantasy", "sword and sorcery", "mythic fiction", "fantasy, epic",
          "fiction, fantasy, epic", "fiction, fantasy, general", "fantastic fiction",
          "english fantasy fiction", "magic", "wizards", "dragons"
      >>],
      [name |-> "Science Fiction", aliases |-> <<
          "science fiction", "sci-fi", "sf", "scifi", "speculative fiction", "cyberpunk",
          "space opera", "dystopian", "post-apocalyptic", "fiction, science fiction",
          "science fiction, general"
      >>],
      [name |-> "Mystery & Thriller", aliases |-> <<
          "mystery", "thriller", "suspense", "crime", "detective", "crime fiction", "noir",
          "psychological thriller", "legal thriller", "mystery and detective stories",
          "crime & mystery", "thrillers", "detective and mystery stories", "murder",
          "mystery fiction"
      >>],
      [name |-> "Horror", aliases |-> <<
          "horror", "gothic", "supernatural", "dark fiction", "ghost stories",
          "horror fiction", "horror tales", "occult fiction"
      >>],
      [name |-> "Romance", aliases |-> <<
          "romance", "romantic fiction", "love story", "romantic suspense",
          "historical romance", "contemporary romance", "love", "romance fiction"
      >>],
      [name |-> "Historical Fiction", aliases |-> <<
          "historical fiction", "historical novel", "historical", "fiction, historical",
          "history fiction"
      >>],
      [name |-> "Literary", aliases |-> <<
          "literary fiction", "literary", "classic", "classics", "classic fiction",
          "literature", "fiction in english", "english fiction", "english literature",
          "american fiction", "american literature", "contemporary fiction", "modern fiction",
          "novel", "novels", "general fiction", "fiction"
      >>],
      [name |-> "Humor", aliases |-> <<
          "humor", "humour", "comedy", "satire", "humorous fiction", "wit and humor",
          "humorous stories"
      >>],
      [name |-> "Adventure", aliases |-> <<
          "adventure", "action", "action adventure", "adventure fiction", "adventure stories",
          "sea stories", "war stories"
      >>],
      [name |-> "Short Stories", aliases |-> <<
          "short stories", "short fiction", "anthology", "collected stories",
          "short stories, english", "fiction, anthologies"
      >>],
      [name |-> "Drama", aliases |-> <<
          "drama", "plays", "family saga", "domestic fiction", "theatrical"
      >>],
      [name |-> "Poetry", aliases |-> <<
          "poetry", "poems", "verse", "poetic works", "english poetry", "american poetry"
      >>],
      [name |-> "Young Adult Fiction", aliases |-> <<
          "young adult fiction", "ya fiction", "teen fiction", "teenage", "coming of age",
          "juvenile fiction", "children's fiction"
      >>],
      [name |-> "Other", aliases |-> <<
      >>]
    >>],
    [name |-> "Non-Fiction", subgenres |-> <<
      [name |-> "Biography & Memoir", aliases |-> <<
          "biography", "autobiography", "memoir", "memoirs", "biographical", "life story",
          "personal narrative", "biography & autobiography", "biographies", "personal memoirs"
      >>],
      [name |-> "History", aliases |-> <<
          "history", "historical", "ancient history", "world history", "military history",
          "cultural history", "medieval history", "modern history", "ancient civilization",
          "archaeology", "world war", "wars", "history, general", "united states history",
          "european history", "indian history", "asian history"
      >>],
      [name |-> "Science & Technology", aliases |-> <<
          "science", "physics", "chemistry", "biology", "astronomy", "natural science",
          "earth science", "environmental science", "popular science", "mathematics", "math",
          "maths", "technology", "computer science", "programming", "engineering",
          "artificial intelligence", "software", "electronics", "computers",
          "technology & engineering", "science, general"
      >>],
      [name |-> "Business & Finance", aliases |-> <<
          "business", "economics", "finance", "management", "entrepreneurship", "investing",
          "marketing", "leadership", "money", "business & economics", "success in business",
          "business success", "commerce"
      >>],
      [name |-> "Self-Help", aliases |-> <<
          "self-help", "self help", "personal development", "motivation", "self improvement",
          "self-improvement", "productivity", "success", "habits", "self-actualization",
          "self-culture", "conduct of life", "inspiration"
      >>],
      [name |-> "Philosophy & Religion", aliases |-> <<
          "philosophy", "philosophical", "ethics", "logic", "metaphysics", "existentialism",
          "stoicism", "religion", "spirituality", "spiritual", "theology", "mysticism",
          "meditation", "yoga", "mythology", "vedanta", "hinduism", "buddhism", "islam",
          "christianity", "religious aspects", "philosophy, general"
      >>],
      [name |-> "Psychology", aliases |-> <<
          "psychology", "psychiatry", "mental health", "cognitive science",
          "behavioral science", "psychoanalysis", "neuroscience", "psychology, general",
          "psychological aspects"
      >>],
      [name |-> "Politics & Society", aliases |-> <<
          "politics", "political science", "sociology", "social science", "current affairs",
          "government", "international relations", "anthropology", "cultural studies",
          "social life and customs", "politics and government"
      >>],
      [name |-> "Arts & Entertainment", aliases |-> <<
          "art", "music", "fine arts", "art history", "photography", "architecture", "design",
          "film", "cinema", "performing arts", "art instruction", "graphic design", "dance",
          "fashion", "painting", "music theory"
      >>],
      [name |-> "Health & Wellness", aliases |-> <<
          "health", "fitness", "medicine", "nutrition", "diet", "exercise", "wellness",
          "medical", "cooking", "cookbooks", "mental health", "health & fitness"
      >>],
      [name |-> "Travel & Culture", aliases |-> <<
          "travel", "geography", "culture", "tourism", "exploration", "travel writing",
          "voyages and travels"
      >>],
      [name |-> "Essays & Criticism", aliases |-> <<
          "essays", "essay", "collected essays", "literary criticism", "criticism",
          "literary essays", "book reviews"
      >>],
      [name |-> "Other", aliases |-> <<
      >>]
    >>],
    [name |-> "Children", subgenres |-> <<
      [name |-> "Picture Books", aliases |-> <<
          "picture book", "picture books", "baby books", "infancy", "bedtime",
          "bedtime stories", "stories in rhyme"
      >>],
      [name |-> "Stories", aliases |-> <<
          "children's fiction", "children's stories", "children's literature", "fairy tales",
          "fables", "juvenile literature", "kids books"
      >>],
      [name |-> "Educational", aliases |-> <<
          "children's educational", "educational", "learning", "young readers nonfiction",
          "children's nonfiction", "juvenile nonfiction"
      >>],
      [name |-> "Young Adult", aliases |-> <<
          "young adult", "ya", "teen", "teenage", "young adult fiction", "coming of age"
      >>],
      [name |-> "Other", aliases |-> <<
      >>]
    >>],
    [name |-> "Comics & Graphic Novels", subgenres |-> <<
      [name |-> "Graphic Novels", aliases |-> <<
          "graphic novel", "graphic novels", "comics", "comic book", "sequential art",
          "comic books, strips, etc"
      >>],
      [name |-> "Manga", aliases |-> <<
          "manga", "anime", "japanese comics", "manhwa", "manhua"
      >>],
      [name |-> "Indian Comics", aliases |-> <<
          "indian comics", "amar chitra katha", "panchatantra", "indian mythology comics"
      >>],
      [name |-> "Superheroes", aliases |-> <<
          "superheroes", "superhero comics", "marvel", "dc comics"
      >>],
      [name |-> "Other", aliases |-> <<
      >>]
    >>],
    [name |-> "Reference", subgenres |-> <<
      [name |-> "Encyclopedias", aliases |-> <<
          "encyclopedia", "encyclopaedia", "encyclopedias", "dictionaries"
      >>],
      [name |-> "Textbooks", aliases |-> <<
          "textbook", "textbooks", "academic", "coursebook", "study guide",
          "educational material", "course material"
      >>],
      [name |-> "Guides & Handbooks", aliases |-> <<
          "handbook", "guide", "reference", "manual", "how-to", "almanac", "atlas", "dictionary"
      >>],
      [name |-> "Other", aliases |-> <<
      >>]
    >>]
  >>

FOLDER_TO_TAXONOMY ==
  <<
    <<"amar chitra katha", "Comics & Graphic Novels", "Indian Comics">>,
    <<"indian comics", "Comics & Graphic Novels", "Indian Comics">>,
    <<"panchatantra", "Comics & Graphic Novels", "Indian Comics">>,
    <<"comics", "Comics & Graphic Novels", "Graphic Novels">>,
    <<"graphic novels", "Comics & Graphic Novels", "Graphic Novels">>,
    <<"manga", "Comics & Graphic Novels", "Manga">>,
    <<"historic rare", "Non-Fiction", "History">>,
    <<"history", "Non-Fiction", "History">>,
    <<"indian history", "Non-Fiction", "History">>,
    <<"j krishnamurthi", "Non-Fiction", "Philosophy & Religion">>,
    <<"j krishnamurti", "Non-Fiction", "Philosophy & Religion">>,
    <<"ayn rand", "Non-Fiction", "Philosophy & Religion">>,
    <<"philosophy", "Non-Fiction", "Philosophy & Religion">>,
    <<"osho", "Non-Fiction", "Philosophy & Religion">>,
    <<"spirituality", "Non-Fiction", "Philosophy & Religion">>,
    <<"vedanta", "Non-Fiction", "Philosophy & Religion">>,
    <<"religion", "Non-Fiction", "Philosophy & Religion">>,
    <<"tell me why", "Children", "Educational">>,
    <<"how it works", "Non-Fiction", "Science & Technology">>,
    <<"kids", "Children", "Stories">>,
    <<"children", "Children", "Stories">>,
    <<"science", "Non-Fiction", "Science & Technology">>,
    <<"programming", "Non-Fiction", "Science & Technology">>,
    <<"technology", "Non-Fiction", "Science & Technology">>,
    <<"vedic maths", "Non-Fiction", "Science & Technology">>,
    <<"vedic math", "Non-Fiction", "Science & Technology">>,
    <<"fiction", "Fiction", "Literary">>,
    <<"novels", "Fiction", "Literary">>,
    <<"sci-fi", "Fiction", "Science Fiction">>,
    <<"science fiction", "Fiction", "Science Fiction">>,
    <<"fantasy", "Fiction", "Fantasy">>,
    <<"mystery", "Fiction", "Mystery & Thriller">>,
    <<"thriller", "Fiction", "Mystery & Thriller">>,
    <<"crime", "Fiction", "Mystery & Thriller">>,
    <<"romance", "Fiction", "Romance">>,
    <<"horror", "Fiction", "Horror">>,
    <<"adventure", "Fiction", "Adventure">>,
    <<"poetry", "Fiction", "Poetry">>,
    <<"biography", "Non-Fiction", "Biography & Memoir">>,
    <<"biographies", "Non-Fiction", "Biography & Memoir">>,
    <<"autobiography", "Non-Fiction", "Biography & Memoir">>,
    <<"business", "Non-Fiction", "Business & Finance">>,
    <<"finance", "Non-Fiction", "Business & Finance">>,
    <<"self-help", "Non-Fiction", "Self-Help">>,
    <<"self help", "Non-Fiction", "Self-Help">>,
    <<"art", "Non-Fiction", "Arts & Entertainment">>,
    <<"music", "Non-Fiction", "Arts & Entertainment">>,
    <<"textbooks", "Reference", "Textbooks">>,
    <<"encyclopedia", "Reference", "Encyclopedias">>
  >>

TITLE_KEYWORDS ==
  <<
    [category |-> "Fiction", subgenre |-> "Science Fiction", keywords |-> <<"sci-fi", "starship", "alien invasion", "space station">>],
    [category |-> "Fiction", subgenre |-> "Fantasy", keywords |-> <<"sword and sorcery", "epic fantasy", "dark lord">>],
    [category |-> "Fiction", subgenre |-> "Mystery & Thriller", keywords |-> <<"murder mystery", "detective story", "whodunit">>],
    [category |-> "Fiction", subgenre |-> "Horror", keywords |-> <<"horror stories", "haunted house", "supernatural horror">>],
    [category |-> "Non-Fiction", subgenre |-> "History", keywords |-> <<"world history", "ancient history", "military history">>],
    [category |-> "Non-Fiction", subgenre |-> "Biography & Memoir", keywords |-> <<"biography of", "life of", "autobiography of">>],
    [category |-> "Non-Fiction", subgenre |-> "Philosophy & Religion", keywords |-> <<"philosophy of", "ethics of">>],
    [category |-> "Non-Fiction", subgenre |-> "Science & Technology", keywords |-> <<"introduction to physics", "chemistry basics">>],
    [category |-> "Non-Fiction", subgenre |-> "Self-Help", keywords |-> <<"how to succeed", "self improvement">>],
    [category |-> "Non-Fiction", subgenre |-> "Business & Finance", keywords |-> <<"business strategy", "financial planning">>],
    [category |-> "Children", subgenre |-> "Educational", keywords |-> <<"tell me why", "how it works", "for kids">>],
    [category |-> "Comics & Graphic Novels", subgenre |-> "Indian Comics", keywords |-> <<"amar chitra katha", "panchatantra tales">>]
  >>
\* ---------------------------------------------------------------------------
\* taxonomy.py: classification functions
\* ---------------------------------------------------------------------------

NoMatch ==
  <<None, None>>

\* GENRE_BLACKLIST_PATTERNS, each applied with re.match (anchored at the start
\* of the string) and re.IGNORECASE to the raw genre.
GenreBlacklisted(raw_genre) ==
  TheOne({(
  \/ StartsWith(g, "http")                     \* ^https?
  \/ StartsWith(g, "www.")                     \* ^www\.
  \/ StartsWith(g, "archive.org")              \* archive\.org
  \/ StartsWith(g, "indirectobject")           \* ^IndirectObject
  \/ AllDigits(raw_genre)                      \* ^\d+$
  \/ Len(raw_genre) \in 1..2                   \* ^.{1,2}$
  \/ StartsWith(raw_genre, " -- ")) : g \in {lower(raw_genre)}})            \* ' -- '

MaxGenreLen ==
  50

MinPartialAliasLen ==
  4

\* alias.lower() and subgenre.lower() of every entry of TAXONOMY, computed once.
TAXONOMY_LOWER ==
  [c \in 1..Len(TAXONOMY) |->
     [g \in 1..Len(TAXONOMY[c].subgenres) |->
        [name |-> lower(TAXONOMY[c].subgenres[g].name),
         aliases |-> [a \in 1..Len(TAXONOMY[c].subgenres[g].aliases) |->
                        lower(TAXONOMY[c].subgenres[g].aliases[a])]]]]

\* for alias in aliases: exact match, or the genre contains an alias longer than 4
\* (aliases are the lower-cased aliases; lower() keeps the length)
ScanAliases(genre_lower, aliases) ==
  \E i \in 1..Len(aliases) :
     \/ genre_lower = aliases[i]
     \/ Len(aliases[i]) > MinPartialAliasLen /\ Contains(genre_lower, aliases[i])

RECURSIVE ScanSubgenres(_, _, _)
\* for subgenre, aliases in subgenres.items(): "Other" is skipped
ScanSubgenres(genre_lower, c, i) ==
  IF i > Len(TAXONOMY[c].subgenres) THEN None
  ELSE IF TAXONOMY[c].subgenres[i].name = "Other" THEN ScanSubgenres(genre_lower, c, i + 1)
  ELSE IF genre_lower = TAXONOMY_LOWER[c][i].name THEN TAXONOMY[c].subgenres[i].name
  ELSE IF ScanAliases(genre_lower, TAXONOMY_LOWER[c][i].aliases) THEN TAXONOMY[c].subgenres[i].name
  ELSE ScanSubgenres(genre_lower, c, i + 1)

RECURSIVE ScanTaxonomy(_, _)
\* for category, subgenres in TAXONOMY.items()
ScanTaxonomy(genre_lower, c) ==
  IF c > Len(TAXONOMY) THEN NoMatch
  ELSE TheOne({(
         IF sub # None THEN <<TAXONOMY[c].name, sub>>
         ELSE ScanTaxonomy(genre_lower, c + 1)) : sub \in {ScanSubgenres(genre_lower, c, 1)}})

classify_genre(raw_genre) ==
  IF ~Truthy(raw_genre) THEN NoMatch
  ELSE IF GenreBlacklisted(raw_genre) THEN NoMatch
  ELSE IF Len(raw_genre) > MaxGenreLen THEN NoMatch
  ELSE TheOne({(
       TheOne({(
         IF found # NoMatch THEN found
         ELSE IF Contains(genre_lower, "fiction") /\ ~Contains(genre_lower, "non")
              THEN <<"Fiction", "Other">>
         ELSE IF Contains(genre_lower, "non-fiction") \/ Contains(genre_lower, "nonfiction")
              THEN <<"Non-Fiction", "Other">>
         ELSE NoMatch) : found \in {ScanTaxonomy(genre_lower, 1)}})) : genre_lower \in {strip(lower(raw_genre))}})

\* ---- paths (pathlib.PurePosixPath, os.path) ----

RECURSIVE PathParts(_)
\* The components of a path between separators; empty and "." components are dropped.
PathParts(p) ==
  TheOne({(
  TheOne({(
    IF q = "" THEN <<>>
    ELSE IF n = 0 THEN (IF q = "." THEN <<>> ELSE <<q>>)
    ELSE IF n = 1 THEN PathParts(From(q, 2))
    ELSE IF SubSeq(q, 1, n - 1) = "." THEN PathParts(From(q, n + 1))
    ELSE <<SubSeq(q, 1, n - 1)>> \o PathParts(From(q, n + 1))) : n \in {IndexOfFrom(q, "/", 1)}})) : q \in {p}})

RECURSIVE JoinPath(_)
JoinPath(parts) ==
  IF parts = <<>> THEN ""
  ELSE IF Len(parts) = 1 THEN parts[1]
  ELSE parts[1] \o "/" \o JoinPath(Tail(parts))

\* str(Path(p)): the normalised path
PathStr(p) ==
  TheOne({(
    IF parts = <<>> THEN (IF StartsWith(p, "/") THEN "/" ELSE ".")
    ELSE (IF StartsWith(p, "/") THEN "/" ELSE "") \o JoinPath(parts)) : parts \in {PathParts(p)}})

\* Path(p).name
PathName(p) ==
  TheOne({(IF parts = <<>> THEN "" ELSE parts[Len(parts)]) : parts \in {PathParts(p)}})

\* Path(p).stem: the name without its last suffix
PathStem(p) ==
  TheOne({(
  TheOne({(
    IF i > 1 /\ i < Len(name) THEN SubSeq(name, 1, i - 1) ELSE name) : i \in {LastIndexOf(name, ".")}})) : name \in {PathName(p)}})

\* [parent.name for parent in Path(p).parents]: nearest ancestor first, the
\* root (or ".") last with the name "".
ParentNames(p) ==
  TheOne({(
  TheOne({(
    IF n = 0 THEN <<>>
    ELSE [i \in 1..n |-> IF i = n THEN "" ELSE parts[n - i]]) : n \in {Len(parts)}})) : parts \in {PathParts(p)}})

\* key.lower() of every key of FOLDER_TO_TAXONOMY, computed once.
FOLDER_KEYS_LOWER ==
  [i \in 1..Len(FOLDER_TO_TAXONOMY) |-> lower(FOLDER_TO_TAXONOMY[i][1])]

\* folder_name in FOLDER_TO_TAXONOMY: the index of the key equal to it, 0 if none.
FolderKeyIndex(folder_name) ==
  IF \E i \in 1..Len(FOLDER_TO_TAXONOMY) : FOLDER_TO_TAXONOMY[i][1] = folder_name
  THEN CHOOSE i \in 1..Len(FOLDER_TO_TAXONOMY) : FOLDER_TO_TAXONOMY[i][1] = folder_name
  ELSE 0

RECURSIVE FolderPartialFrom(_, _)
\* First key of the table, in declaration order from i on, that the folder name contains.
FolderPartialFrom(folder_name, i) ==
  IF i > Len(FOLDER_TO_TAXONOMY) THEN 0
  ELSE IF Contains(folder_name, FOLDER_KEYS_LOWER[i]) THEN i
  ELSE FolderPartialFrom(folder_name, i + 1)

FolderPartialIndex(folder_name) ==
  FolderPartialFrom(folder_name, 1)

RECURSIVE ScanParents(_, _)
ScanParents(names, i) ==
  IF i > Len(names) THEN NoMatch
  ELSE TheOne({(
       TheOne({(
         IF d # 0 THEN <<FOLDER_TO_TAXONOMY[d][2], FOLDER_TO_TAXONOMY[d][3]>>
         ELSE TheOne({(
                IF p # 0 THEN <<FOLDER_TO_TAXONOMY[p][2], FOLDER_TO_TAXONOMY[p][3]>>
                ELSE ScanParents(names, i + 1)) : p \in {FolderPartialIndex(folder_name)}})) : d \in {FolderKeyIndex(folder_name)}})) : folder_name \in {lower(names[i])}})

classify_from_folder(filepath) ==
  TheOne({(ScanParents(names, 1)) : names \in {ParentNames(filepath)}})

\* keyword.lower() of every keyword of TITLE_KEYWORDS, computed once.
TITLE_KEYWORDS_LOWER ==
  [i \in 1..Len(TITLE_KEYWORDS) |->
     [k \in 1..Len(TITLE_KEYWORDS[i].keywords) |-> lower(TITLE_KEYWORDS[i].keywords[k])]]

RECURSIVE ScanTitleKeywords(_, _)
\* for (category, subgenre), keywords in TITLE_KEYWORDS.items(): first entry with a keyword in the title
ScanTitleKeywords(title_lower, i) ==
  IF i > Len(TITLE_KEYWORDS) THEN NoMatch
  ELSE IF \E k \in 1..Len(TITLE_KEYWORDS[i].keywords) :
            Contains(title_lower, TITLE_KEYWORDS_LOWER[i][k])
       THEN <<TITLE_KEYWORDS[i].category, TITLE_KEYWORDS[i].subgenre>>
  ELSE ScanTitleKeywords(title_lower, i + 1)

classify_from_title(title) ==
  IF ~Truthy(title) THEN NoMatch
  ELSE TheOne({(ScanTitleKeywords(title_lower, 1)) : title_lower \in {lower(title)}})

\* ---------------------------------------------------------------------------
\* metadata_classifier.py: author validation and extraction
\* ---------------------------------------------------------------------------

AUTHOR_BLACKLIST ==
  { "unknown", "unknown author", "none", "null", "n/a", "na",
    "admin", "administrator", "user", "owner",
    "author", "writer", "editor",
    "various", "various authors", "anonymous",
    "a", "b", "c", "x", "y", "z",
    "nullobject", "null object",
    "calibre", "calibre user",
    "acrobat", "adobe",
    "gnv64", "mobilism", "libgen", "z-library",
    "downmagaz.net", "downmagaz", "useruplod.net", "userupload" }

\* The printable ASCII characters (all but the backquote, which a TLA+ string cannot hold).
ASCII_PRINTABLE ==
  " !\"#$%&'()*+,-./:;<=>?@[\\]^_{|}~" \o UPPERCASE \o LOWERCASE \o DIGITS

\* ord(c) > 127: every character outside ASCII.
AsciiPrintableSet ==
  CharSet(ASCII_PRINTABLE)

IsNonAscii(c) ==
  c \notin AsciiPrintableSet /\ ~IsSpace(c)

\* c.isprintable() or c.isspace(): of the characters a TLA+ string can hold,
\* the control characters are the whitespace ones, which count here.
IsPrintableOrSpace(c) ==
  c \in AsciiPrintableSet \/ IsNonAscii(c) \/ IsSpace(c)

MaxNonAsciiStreak ==
  5

\* max_streak > MaxNonAsciiStreak: some run of MaxNonAsciiStreak + 1 consecutive
\* non-ASCII characters occurs in text.
NonAsciiStreakExceeded(text) ==
  TheOne({(
    \E i \in 1..(Len(t) - MaxNonAsciiStreak) :
       \A j \in i..(i + MaxNonAsciiStreak) : IsNonAscii(CharAt(t, j))) : t \in {text}})

is_printable_text(text) ==
  TheOne({(
    IF ~Truthy(t) THEN FALSE
    ELSE IF StartsWith(t, "b'") \/ StartsWith(t, "b\"") THEN FALSE
    ELSE IF Contains(t, "\\x") THEN FALSE
    ELSE IF 10 * Cardinality({i \in 1..Len(t) : IsPrintableOrSpace(CharAt(t, i))}) < 8 * Len(t)
         THEN FALSE
    ELSE IF NonAsciiStreakExceeded(t) THEN FALSE
    ELSE TRUE) : t \in {text}})

\* AUTHOR_BLACKLIST_PATTERNS, each applied with re.match (anchored at the start
\* of the string) and re.IGNORECASE to the author.
AuthorPatternBlacklisted(author) ==
  TheOne({(
  \/ StartsWith(a, "indirectobject")                      \* ^IndirectObject
  \/ AllDigits(author)                                    \* ^\d+$
  \/ Len(author) \in 1..2                                 \* ^.{1,2}$
  \/ StartsWith(a, "http://") \/ StartsWith(a, "https://") \* ^https?://
  \/ StartsWith(a, "www.")                                \* ^www\.
  \/ a = ".com"                                           \* \.com$
  \/ a = ".net"                                           \* \.net$
  \/ a = ".org") : a \in {lower(author)}})                                          \* \.org$

is_valid_author(author) ==
  IF ~Truthy(author) THEN FALSE
  ELSE IF ~is_printable_text(author) THEN FALSE
  ELSE IF TheOne({(strip(a)) : a \in {lower(author)}}) \in AUTHOR_BLACKLIST THEN FALSE
  ELSE IF AuthorPatternBlacklisted(author) THEN FALSE
  ELSE TRUE

ROLE_SUFFIXES ==
  <<"author", "editor", "translator", "compiled by">>

\* re.sub(r'\s+(author|editor|translator|compiled by)\s*$', '', author, IGNORECASE)
StripRoleSuffix(author) ==
  TheOne({(
  TheOne({(
    LET Fits(r) == /\ EndsWith(t_lower, ROLE_SUFFIXES[r])
                   /\ Len(t) > Len(ROLE_SUFFIXES[r])
                   /\ IsSpace(CharAt(t, Len(t) - Len(ROLE_SUFFIXES[r])))
    IN IF \E r \in 1..Len(ROLE_SUFFIXES) : Fits(r)
       THEN TheOne({(
              TheOne({(rstrip(head)) : head \in {SubSeq(t, 1, Len(t) - Len(ROLE_SUFFIXES[r]))}})) : r \in {CHOOSE r \in 1..Len(ROLE_SUFFIXES) : Fits(r)}})
       ELSE author) : t_lower \in {lower(t)}})) : t \in {rstrip(author)}})

\* The number of leading digits of s.
RECURSIVE LeadingDigits(_)
LeadingDigits(s) ==
  IF s # "" /\ IsDigit(Head(s)) THEN 1 + LeadingDigits(Tail(s)) ELSE 0

\* t matches ,?\s*\d{4}\s*-\s*\d{0,4}\s*$ from its first character to its end.
YearTailMatches(t) ==
  TheOne({(
    /\ LeadingDigits(t1) >= 4
    /\ TheOne({(
         /\ StartsWith(t2, "-")
         /\ TheOne({(
              TheOne({(
                n <= 4 /\ lstrip(From(t3, n + 1)) = "") : n \in {LeadingDigits(t3)}})) : t3 \in {lstrip(From(t2, 2))}})) : t2 \in {lstrip(From(t1, 5))}})) : t1 \in {lstrip(IF StartsWith(t, ",") THEN From(t, 2) ELSE t)}})

\* re.sub(r',?\s*\d{4}\s*-\s*\d{0,4}\s*$', '', author): the leftmost match is removed.
StripYearRange(author) ==
  TheOne({(
  TheOne({(
    IF starts # {}
    THEN SubSeq(a, 1, (CHOOSE i \in starts : \A j \in starts : i <= j) - 1)
    ELSE a) : starts \in {{i \in 1..Len(a) : TheOne({(YearTailMatches(tail)) : tail \in {From(a, i)}})}}})) : a \in {author}})

clean_author_name(author) ==
  IF ~Truthy(author) THEN None
  ELSE TheOne({(
       TheOne({(
       TheOne({(
       TheOne({(IF a4 # "" THEN a4 ELSE None) : a4 \in {strip(a3)}})) : a3 \in {rstripChars(a2, ".,;:")}})) : a2 \in {StripYearRange(a1)}})) : a1 \in {StripRoleSuffix(author)}})

\* ---- extract_from_filename ----

\* re.sub(r'@\w+', '', filename)
RemoveMentions(str) ==
  TheOne({(
  TheOne({(ReplaceMatches(s, lens, "")) : lens \in {[i \in 1..Len(s) |->
          IF CharAt(s, i) = "@" /\ RunOf(s, i + 1, WordChars) > 0
          THEN 1 + RunOf(s, i + 1, WordChars) ELSE 0]}})) : s \in {str}})

\* The length of the match of \s*\(\s*word\s*\)\s* at position i of s (ignoring
\* case; word is in lower case), 0 if there is none.
ParenWordLen(s, i, word) ==
  TheOne({(
    IF ~(open <= Len(s) /\ CharAt(s, open) = "(") THEN 0
    ELSE TheOne({(
           IF ~(w + Len(word) - 1 <= Len(s) /\ lower(SubSeq(s, w, w + Len(word) - 1)) = word) THEN 0
           ELSE TheOne({(
                  IF close <= Len(s) /\ CharAt(s, close) = ")"
                  THEN (close + 1 + SpaceRun(s, close + 1)) - i
                  ELSE 0) : close \in {w + Len(word) + SpaceRun(s, w + Len(word))}})) : w \in {open + 1 + SpaceRun(s, open + 1)}})) : open \in {i + SpaceRun(s, i)}})

\* re.sub(r'\s*\(\s*word\s*\)\s*', '', s, flags=re.IGNORECASE)
RemoveParenWord(str, word) ==
  TheOne({(
  TheOne({(ReplaceMatches(s, lens, "")) : lens \in {[i \in 1..Len(s) |-> ParenWordLen(s, i, word)]}})) : s \in {str}})

\* re.sub(r'_+', ' ', filename)
CollapseUnderscores(str) ==
  TheOne({(
  TheOne({(ReplaceMatches(s, lens, " ")) : lens \in {[i \in 1..Len(s) |-> RunOf(s, i, {"_"})]}})) : s \in {str}})

\* Lines 159-166: the stem without watermarks and underscores.
CleanFilename(filepath) ==
  TheOne({(
  TheOne({(
  TheOne({(
  TheOne({(
  TheOne({(strip(f4)) : f4 \in {CollapseUnderscores(f3)}})) : f3 \in {RemoveParenWord(f2, "z-lib.org")}})) : f2 \in {RemoveParenWord(f1, "pdfdrive")}})) : f1 \in {RemoveMentions(stem)}})) : stem \in {PathStem(filepath)}})

NoCapture ==
  [matched |-> FALSE, author |-> "", title |-> ""]

Capture(author, title) ==
  [matched |-> TRUE, author |-> TheOne({(strip(a)) : a \in {author}}),
   title |-> TheOne({(strip(t)) : t \in {title}})]

\* The index of the first ASCII hyphen of s, 0 if none.
FirstHyphen(s) ==
  IndexOfFrom(s, "-", 1)

\* FILENAME_PATTERNS[0]: ^(?P<author>[^-]+?)\s*[-]\s*(?P<title>.+)$
\* The author has no hyphen, so the separator is the first hyphen of the name.
MatchAuthorDashTitle(s) ==
  TheOne({(
    IF h > 1 /\ h < Len(s) THEN Capture(SubSeq(s, 1, h - 1), From(s, h + 1)) ELSE NoCapture) : h \in {FirstHyphen(s)}})

\* FILENAME_PATTERNS[1]: ^(?P<title>.+?)\s*[-]\s*(?P<author>[^-]+)$
\* The author has no hyphen, so the separator is the last hyphen of the name.
MatchTitleDashAuthor(s) ==
  TheOne({(
    IF h > 1 /\ h < Len(s) THEN Capture(From(s, h + 1), SubSeq(s, 1, h - 1)) ELSE NoCapture) : h \in {LastIndexOf(s, "-")}})

\* FILENAME_PATTERNS[2] and [3]: ^(?P<title>.+?)\s*OPEN(?P<author>[^CLOSE]+)CLOSE$
\* The lazy title makes the leftmost possible opening bracket the separator.
MatchTitleBracketAuthor(s, open, close) ==
  LET Fits(i) == /\ CharAt(s, i) = open
                 /\ i + 1 < Len(s)
                 /\ \A j \in (i + 1)..(Len(s) - 1) : CharAt(s, j) # close
  IN IF s # "" /\ CharAt(s, Len(s)) = close
     THEN TheOne({(
            IF opens = {} THEN NoCapture
            ELSE TheOne({(
                   Capture(SubSeq(s, i + 1, Len(s) - 1), SubSeq(s, 1, i - 1))) : i \in {CHOOSE i \in opens : \A j \in opens : i <= j}})) : opens \in {{i \in 2..Len(s) : Fits(i)}}})
     ELSE NoCapture

\* FILENAME_PATTERNS[4]: ^(?P<title>.+?)_(?P<author>[A-Z][a-z]+(?:_[A-Z][a-z]+)+)...$
\* needs an underscore in the name; line 165 has replaced every underscore.
MatchUnderscored(s) ==
  NoCapture

FilenameMatches(name) ==
  TheOne({(
  << MatchAuthorDashTitle(s),
     MatchTitleDashAuthor(s),
     MatchTitleBracketAuthor(s, "(", ")"),
     MatchTitleBracketAuthor(s, "[", "]"),
     MatchUnderscored(s) >>) : s \in {name}})

MaxAuthorWords ==
  4

\* Lines 170-191 for one matched pattern: the author it yields, or None.
AuthorFromCapture(m) ==
  IF ~m.matched \/ m.author = "" THEN None
  ELSE TheOne({(
       TheOne({(
       TheOne({(
       TheOne({(
         IF word_count <= MaxAuthorWords /\ is_valid_author(author) THEN author ELSE None) : author \in {strip(replaced)}})) : replaced \in {replaceChar(IF swap THEN m.title ELSE m.author, "_", " ")}})) : swap \in {m.title # "" /\ 2 * Len(m.author) > 3 * Len(m.title) /\ word_count > 2}})) : word_count \in {Len(split(m.author))}})

extract_from_filename(filepath) ==
  TheOne({(
  TheOne({(
  TheOne({(
  TheOne({(
    IF yielding = {} THEN None
    ELSE authors[CHOOSE i \in yielding : \A j \in yielding : i <= j]) : yielding \in {{i \in 1..Len(ms) : authors[i] # None}}})) : authors \in {[i \in 1..Len(ms) |-> AuthorFromCapture(ms[i])]}})) : ms \in {FilenameMatches(filename)}})) : filename \in {CleanFilename(filepath)}})

\* ---------------------------------------------------------------------------
\* openlibrary_service.py: external lookup
\* ---------------------------------------------------------------------------

\* A subject of a response that is not a string (its .upper() raises AttributeError).
NotAString ==
  "<not-a-str>"

\* \b at the gap before position i of s (between characters i-1 and i).
WordBoundary(s, i) ==
  LET before == i > 1 /\ IsWordChar(CharAt(s, i - 1))
      after  == i <= Len(s) /\ IsWordChar(CharAt(s, i))
  IN before # after

\* re.sub(open .*? close, '', s): from an opening bracket to the next closing one.
RemoveBracketed(str, open, close) ==
  TheOne({(
  TheOne({(ReplaceMatches(s, lens, "")) : lens \in {[i \in 1..Len(s) |->
          IF CharAt(s, i) = open
          THEN TheOne({(IF j > 0 THEN j - i + 1 ELSE 0) : j \in {IndexOfFrom(s, close, i + 1)}})
          ELSE 0]}})) : s \in {str}})

\* re.sub(r'\s*-\s*', ' ', s)
SpaceOutHyphens(str) ==
  TheOne({(
  TheOne({(ReplaceMatches(s, lens, " ")) : lens \in {[i \in 1..Len(s) |->
          TheOne({(
            IF h <= Len(s) /\ CharAt(s, h) = "-"
            THEN (h - i) + 1 + SpaceRun(s, h + 1) ELSE 0) : h \in {i + SpaceRun(s, i)}})]}})) : s \in {str}})

\* re.sub(r'\b(19|20)\d{2}\b', '', s)
RemoveYears(str) ==
  TheOne({(
  TheOne({(ReplaceMatches(s, lens, "")) : lens \in {[i \in 1..Len(s) |->
          IF /\ i + 3 <= Len(s)
             /\ SubSeq(s, i, i + 1) \in {"19", "20"}
             /\ IsDigit(CharAt(s, i + 2)) /\ IsDigit(CharAt(s, i + 3))
             /\ WordBoundary(s, i) /\ WordBoundary(s, i + 4)
          THEN 4 ELSE 0]}})) : s \in {str}})

FORMAT_WORDS ==
  <<"epub", "pdf", "mobi", "azw3", "azw">>

\* re.sub(r'\b(epub|pdf|mobi|azw3?)\b', '', s, flags=re.IGNORECASE)
RemoveFormatWords(str) ==
  TheOne({(
  TheOne({(
    LET Fits(i, w) == /\ i + Len(FORMAT_WORDS[w]) - 1 <= Len(s)
                      /\ SubSeq(s_lower, i, i + Len(FORMAT_WORDS[w]) - 1) = FORMAT_WORDS[w]
                      /\ WordBoundary(s, i) /\ WordBoundary(s, i + Len(FORMAT_WORDS[w]))
    IN TheOne({(ReplaceMatches(s, lens, "")) : lens \in {[i \in 1..Len(s) |->
               TheOne({(
                 IF ws # {} THEN Len(FORMAT_WORDS[CHOOSE w \in ws : \A v \in ws : w <= v])
                 ELSE 0) : ws \in {{w \in 1..Len(FORMAT_WORDS) : Fits(i, w)}}})]}})) : s_lower \in {lower(s)}})) : s \in {str}})

\* re.sub(r'\s+', ' ', s)
CollapseSpaces(str) ==
  TheOne({(
  TheOne({(ReplaceMatches(s, lens, " ")) : lens \in {[i \in 1..Len(s) |-> SpaceRun(s, i)]}})) : s \in {str}})

\* Lines 252-265 of lookup_book_metadata: the search title made from a file path.
CleanTitle(filepath) ==
  TheOne({(
  TheOne({(
  TheOne({(
  TheOne({(
  TheOne({(
  TheOne({(
  TheOne({(
  TheOne({(
  TheOne({(
  TheOne({(
  TheOne({(strip(t10)) : t10 \in {CollapseSpaces(t9)}})) : t9 \in {RemoveFormatWords(t8)}})) : t8 \in {RemoveYears(t7)}})) : t7 \in {SpaceOutHyphens(t6)}})) : t6 \in {CollapseUnderscores(t5)}})) : t5 \in {RemoveBracketed(t4, "(", ")")}})) : t4 \in {RemoveBracketed(t3, "[", "]")}})) : t3 \in {RemoveParenWord(t2, "z-lib.org")}})) : t2 \in {RemoveParenWord(t1, "pdfdrive")}})) : t1 \in {RemoveMentions(stem)}})) : stem \in {PathStem(filepath)}})

MinTitleLen ==
  3

\* cache_key = f"{title}|{author or ''}"
CacheKey(title, author) ==
  title \o "|" \o (IF Truthy(author) THEN author ELSE "")

\* ' | '.join(s.upper() for s in subjects)
RECURSIVE JoinUpper(_)
JoinUpper(subjects) ==
  IF subjects = <<>> THEN ""
  ELSE IF Len(subjects) = 1 THEN upper(subjects[1])
  ELSE upper(subjects[1]) \o " | " \o JoinUpper(Tail(subjects))

\* Lines 119-157 for one subject: the pair its BISAC code maps to, or NoMatch.
BisacPair(subject) ==
  TheOne({(
  IF Contains(u, "FICTION /") THEN
       IF Contains(u, "FANTASY") THEN <<"Fiction", "Fantasy">>
       ELSE IF Contains(u, "SCIENCE FICTION") THEN <<"Fiction", "Science Fiction">>
       ELSE IF Contains(u, "MYSTERY") \/ Contains(u, "THRILLER") THEN <<"Fiction", "Mystery & Thriller">>
       ELSE IF Contains(u, "HORROR") THEN <<"Fiction", "Horror">>
       ELSE IF Contains(u, "ROMANCE") THEN <<"Fiction", "Romance">>
       ELSE IF Contains(u, "HISTORICAL") THEN <<"Fiction", "Historical Fiction">>
       ELSE <<"Fiction", "Literary">>
  ELSE IF Contains(u, "SELF-HELP") THEN <<"Non-Fiction", "Self-Help">>
  ELSE IF Contains(u, "BUSINESS & ECONOMICS") THEN <<"Non-Fiction", "Business & Finance">>
  ELSE IF Contains(u, "TECHNOLOGY & ENGINEERING") THEN <<"Non-Fiction", "Science & Technology">>
  ELSE IF (Contains(u, "HISTORY /") \/ StartsWith(u, "HISTORY")) /\ Len(subject) > 10
       THEN <<"Non-Fiction", "History">>
  ELSE IF Contains(u, "PSYCHOLOGY") THEN <<"Non-Fiction", "Psychology">>
  ELSE IF Contains(u, "RELIGION") \/ Contains(u, "PHILOSOPHY") THEN <<"Non-Fiction", "Philosophy & Religion">>
  ELSE IF Contains(u, "HEALTH") \/ Contains(u, "FITNESS") THEN <<"Non-Fiction", "Health & Wellness">>
  ELSE IF Contains(u, "COOKING") \/ Contains(u, "COOKBOOK") THEN <<"Non-Fiction", "Health & Wellness">>
  ELSE NoMatch) : u \in {upper(subject)}})

GENERIC_SUBJECTS ==
  {"fiction", "nonfiction", "non-fiction", "book", "books", "history"}

MinSubjectLen ==
  4

\* Lines 163-167 and 205-209: the subject is skipped as too generic.
TooGeneric(subject_lower) ==
  Len(subject_lower) < MinSubjectLen \/ subject_lower \in GENERIC_SUBJECTS

\* Lines 160-187 for one subject: the pair its genre keyword maps to, or NoMatch.
KeywordPair(subject) ==
  TheOne({(
  TheOne({(
  IF TooGeneric(l) THEN NoMatch
  ELSE IF Contains(l, "fantasy") THEN <<"Fiction", "Fantasy">>
  ELSE IF Contains(l, "science fiction") \/ Contains(l, "sci-fi") THEN <<"Fiction", "Science Fiction">>
  ELSE IF Contains(l, "mystery") \/ Contains(l, "detective") THEN <<"Fiction", "Mystery & Thriller">>
  ELSE IF Contains(l, "thriller") \/ Contains(l, "suspense") THEN <<"Fiction", "Mystery & Thriller">>
  ELSE IF Contains(l, "horror") THEN <<"Fiction", "Horror">>
  ELSE IF Contains(l, "romance") THEN <<"Fiction", "Romance">>
  ELSE IF Contains(l, "programming") \/ Contains(l, "computer") THEN <<"Non-Fiction", "Science & Technology">>
  ELSE IF Contains(l, "mathematics") \/ Contains(l, "physics") THEN <<"Non-Fiction", "Science & Technology">>
  ELSE NoMatch) : l \in {strip(lowered)}})) : lowered \in {lower(subject)}})

\* category_priority.get(category, 10)
CategoryPriority(category) ==
  CASE category = "Non-Fiction" -> 1
    [] category = "Fiction" -> 2
    [] category = "Children" -> 3
    [] category = "Comics & Graphic Novels" -> 4
    [] category = "Reference" -> 5
    [] OTHER -> 10

\* Lines 217-225: the subject matches the sub-genre name or one of its aliases.
SubjectMatches(subject_lower, subgenre) ==
  \/ subject_lower = subgenre.name
  \/ \E a \in 1..Len(subgenre.aliases) :
        \/ Contains(subject_lower, subgenre.aliases[a])
        \/ Contains(subgenre.aliases[a], subject_lower)

\* Lines 202-231: the taxonomy scan keeps the first match of the smallest priority;
\* the matches are visited subject by subject, category by category, sub-genre by sub-genre.
AliasPair(subjects) ==
  TheOne({(
    LET Hit(s, c, g) == /\ ~TooGeneric(lowered[s])
                        /\ TAXONOMY[c].subgenres[g].name # "Other"
                        /\ SubjectMatches(lowered[s], TAXONOMY_LOWER[c][g])
        visits == UNION { UNION { { <<s, c, g>> : g \in 1..Len(TAXONOMY[c].subgenres) } :
                                  c \in 1..Len(TAXONOMY) } : s \in 1..Len(subjects) }
        Before(a, b) == \/ a[1] < b[1]
                        \/ a[1] = b[1] /\ a[2] < b[2]
                        \/ a[1] = b[1] /\ a[2] = b[2] /\ a[3] < b[3]
        Prio(h) == CategoryPriority(TAXONOMY[h[2]].name)
    IN TheOne({(
         IF hits = {} THEN NoMatch
         ELSE TheOne({(<<TAXONOMY[best[2]].name, TAXONOMY[best[2]].subgenres[best[3]].name>>) : best \in {CHOOSE h \in hits :
                     \A o \in hits : o # h => (Prio(h) < Prio(o) \/ (Prio(h) = Prio(o) /\ Before(h, o)))}})) : hits \in {{h \in visits : Hit(h[1], h[2], h[3])}}})) : lowered \in {[s \in 1..Len(subjects) |-> TheOne({(strip(l)) : l \in {lower(subjects[s])}})]}})

\* classify_from_api_subjects; Raised when a subject is not a string.
Raised ==
  <<"raised", "AttributeError">>

classify_from_api_subjects(subjects) ==
  IF subjects = <<>> THEN NoMatch
  ELSE IF \E i \in 1..Len(subjects) : subjects[i] = NotAString THEN Raised
  ELSE TheOne({(
         IF Contains(all_subjects_upper, "BIOGRAPHY") \/ Contains(all_subjects_upper, "AUTOBIOGRAPHY")
         THEN <<"Non-Fiction", "Biography & Memoir">>
         ELSE TheOne({(
              TheOne({(
                IF coded # {} THEN bisac[CHOOSE i \in coded : \A j \in coded : i <= j]
                ELSE TheOne({(
                     TheOne({(
                       IF keyed # {} THEN keyword[CHOOSE i \in keyed : \A j \in keyed : i <= j]
                       ELSE AliasPair(subjects)) : keyed \in {{i \in 1..Len(subjects) : keyword[i] # NoMatch}}})) : keyword \in {[i \in 1..Len(subjects) |-> KeywordPair(subjects[i])]}})) : coded \in {{i \in 1..Len(subjects) : bisac[i] # NoMatch}}})) : bisac \in {[i \in 1..Len(subjects) |-> BisacPair(subjects[i])]}})) : all_subjects_upper \in {JoinUpper(subjects)}})

\* ---- query_openlibrary / lookup_book_metadata ----

\* Responses of the Open Library server to one live request.  kind "error" is a
\* failed request (URLError, HTTPError, timeout, undecodable JSON); "nodocs" has
\* an empty docs list; "doc" carries docs[0]: author_name is the list
\* doc.get('author_name', [None]) and subject is the subject list.
ErrorResponse ==
  [kind |-> "error", author_name |-> <<None>>, subject |-> <<>>]

NoDocsResponse ==
  [kind |-> "nodocs", author_name |-> <<None>>, subject |-> <<>>]

\* The value query_openlibrary returns, and caches, for "no result" (Python None).
NoResult ==
  [found |-> FALSE, author |-> None, subjects |-> <<>>]

DocResponse(author_name, subject) ==
  [kind |-> "doc", author_name |-> author_name, subject |-> subject]

\* Fault model: a query_openlibrary that caches what the server answered and
\* forgets a failed request.
query_openlibrary_forgets_failures(title, author, cache, resp) ==
  TheOne({(
    IF cache_key \in DOMAIN cache
    THEN [ret |-> cache[cache_key], cache |-> cache, live |-> FALSE, slept |-> FALSE]
    ELSE IF ~Truthy(title) /\ ~Truthy(author)
    THEN [ret |-> NoResult, cache |-> cache, live |-> FALSE, slept |-> FALSE]
    ELSE IF resp.kind = "error"
    THEN [ret |-> NoResult, cache |-> cache, live |-> TRUE, slept |-> FALSE]
    ELSE IF resp.kind = "nodocs" \/ resp.author_name = <<>>
    THEN [ret |-> NoResult, cache |-> Put(cache, cache_key, NoResult), live |-> TRUE, slept |-> TRUE]
    ELSE TheOne({(
           [ret |-> result, cache |-> Put(cache, cache_key, result), live |-> TRUE, slept |-> TRUE]
         ) : result \in {[found |-> TRUE, author |-> resp.author_name[1], subjects |-> resp.subject]}})
  ) : cache_key \in {CacheKey(title, author)}})

\* query_openlibrary(title, author) with the cache API_CACHE and the answer resp
\* the server gives if a live request is made.  ret is the returned dict or NoResult,
\* live tells whether a request was sent, slept whether the rate-limit delay ran.
query_openlibrary(title, author, cache, resp) ==
  TheOne({(
    LET Store(v) == Put(cache, cache_key, v)
    IN IF cache_key \in DOMAIN cache
       THEN [ret |-> cache[cache_key], cache |-> cache, live |-> FALSE, slept |-> FALSE]
       ELSE IF ~Truthy(title) /\ ~Truthy(author)
       THEN [ret |-> NoResult, cache |-> cache, live |-> FALSE, slept |-> FALSE]
       ELSE IF resp.kind = "error"
       THEN [ret |-> NoResult, cache |-> Store(NoResult), live |-> TRUE, slept |-> FALSE]
       ELSE IF resp.kind = "nodocs"
       THEN [ret |-> NoResult, cache |-> Store(NoResult), live |-> TRUE, slept |-> TRUE]
       ELSE IF resp.author_name = <<>>          \* doc.get('author_name', [None])[0]: IndexError
       THEN [ret |-> NoResult, cache |-> Store(NoResult), live |-> TRUE, slept |-> TRUE]
       ELSE TheOne({(
                   [ret |-> result, cache |-> Store(result), live |-> TRUE, slept |-> TRUE]) : result \in {[found |-> TRUE, author |-> resp.author_name[1], subjects |-> resp.subject]}})) : cache_key \in {CacheKey(title, author)}})

\* lookup_book_metadata(filepath_or_title, existing_author): the triple
\* (author, category, subgenre), or raised when classify_from_api_subjects raises.
lookup_book_metadata(filepath_or_title, existing_author, cache, resp) ==
  LET none == [author |-> None, category |-> None, subgenre |-> None, raised |-> FALSE,
               cache |-> cache, live |-> FALSE, slept |-> FALSE]
  IN
  TheOne({(
  TheOne({(
    IF is_path /\ Len(title) < MinTitleLen THEN none
    ELSE TheOne({(
           IF ~q.ret.found
           THEN [none EXCEPT !.cache = q.cache, !.live = q.live, !.slept = q.slept]
           ELSE TheOne({(
                  [author |-> q.ret.author,
                   category |-> IF pair = Raised THEN None ELSE pair[1],
                   subgenre |-> IF pair = Raised THEN None ELSE pair[2],
                   raised |-> pair = Raised,
                   cache |-> q.cache, live |-> q.live, slept |-> q.slept]) : pair \in {classify_from_api_subjects(q.ret.subjects)}})) : q \in {query_openlibrary(title, existing_author, cache, resp)}})) : title \in {IF is_path THEN CleanTitle(filepath_or_title) ELSE filepath_or_title}})) : is_path \in {Contains(filepath_or_title, "/") \/ Contains(filepath_or_title, "\\")}})

\* ---- classify_book ----

ClassificationResult(category, sub_genre, author, metadata_source) ==
  [category |-> category, sub_genre |-> sub_genre, author |-> author,
   metadata_source |-> metadata_source]

\* Fault model: a classify_book that asks the folder names before anything else.
classify_book_folder_first(filepath, embedded_genre, embedded_author, cache, resp) ==
  TheOne({(
    [result |-> ClassificationResult(f[1], f[2], None, "folder"), raised |-> FALSE,
     calls |-> <<"folder">>, cache |-> cache, live |-> FALSE, slept |-> FALSE]
  ) : f \in {classify_from_folder(filepath)}})

\* classify_book(filepath, embedded_genre, embedded_author) run against the cache
\* and the server answer resp.  result is the returned ClassificationResult,
\* raised tells that an exception left the function instead, calls lists the
\* strategies in the order they were invoked.
classify_book(filepath, embedded_genre, embedded_author, cache, resp) ==
  LET Done(res, calls, c, l, s) ==
        [result |-> res, raised |-> FALSE, calls |-> calls, cache |-> c, live |-> l, slept |-> s]
      \* Lines 233-237: the author and the source the embedded author gives.
      Seed == IF Truthy(embedded_author) /\ is_printable_text(embedded_author)
              THEN TheOne({(
                     IF cleaned_author # None /\ is_valid_author(cleaned_author)
                     THEN <<cleaned_author, "embedded">> ELSE <<None, "unknown">>) : cleaned_author \in {clean_author_name(embedded_author)}})
              ELSE <<None, "unknown">>
      try_genre == Truthy(embedded_genre) /\ is_printable_text(embedded_genre)
      c0 == IF try_genre THEN <<"embedded_genre">> ELSE <<>>
  IN
  TheOne({(
    LET author0 == seed[1]
        source0 == seed[2]
        Source(s) == IF source0 = "unknown" THEN s ELSE source0
        \* Steps 4 and 5, after the lookup api
        AfterApi(api) ==
          TheOne({(
            IF Truthy(t[1]) /\ Truthy(t[2])
            THEN Done(ClassificationResult(t[1], t[2], author0, Source("title")),
                      c0 \o <<"folder", "api", "title">>, api.cache, api.live, api.slept)
            ELSE IF Truthy(author0)
            THEN Done(ClassificationResult(None, None, author0, source0),
                      c0 \o <<"folder", "api", "title">>, api.cache, api.live, api.slept)
            ELSE TheOne({(
                   IF filename_author # None
                   THEN Done(ClassificationResult(None, None, filename_author, Source("filename")),
                             c0 \o <<"folder", "api", "title", "filename">>,
                             api.cache, api.live, api.slept)
                   ELSE Done(ClassificationResult(None, None, author0, source0),
                             c0 \o <<"folder", "api", "title", "filename">>,
                             api.cache, api.live, api.slept)) : filename_author \in {extract_from_filename(filepath)}})) : t \in {classify_from_title(PathStem(filepath))}})
        \* Step 3
        AfterFolder ==
          TheOne({(
          TheOne({(
            IF api.raised
            THEN [result |-> ClassificationResult(None, None, None, "unknown"), raised |-> TRUE,
                  calls |-> c0 \o <<"folder", "api">>,
                  cache |-> api.cache, live |-> api.live, slept |-> api.slept]
            ELSE IF Truthy(api.category) /\ Truthy(api.subgenre)
            THEN Done(ClassificationResult(api.category, api.subgenre,
                        IF ~Truthy(author0) /\ Truthy(api.author) /\ is_valid_author(api.author)
                        THEN api.author ELSE author0,
                        "api"),
                      c0 \o <<"folder", "api">>, api.cache, api.live, api.slept)
            ELSE AfterApi(api)) : api \in {lookup_book_metadata(path, author0, cache, resp)}})) : path \in {PathStr(filepath)}})
        \* Step 2
        AfterGenre ==
          TheOne({(
            IF Truthy(f[1]) /\ Truthy(f[2])
            THEN Done(ClassificationResult(f[1], f[2], author0, Source("folder")),
                      c0 \o <<"folder">>, cache, FALSE, FALSE)
            ELSE AfterFolder) : f \in {classify_from_folder(filepath)}})
    IN \* Step 1
       TheOne({(
         IF Truthy(g[1]) /\ Truthy(g[2])
         THEN Done(ClassificationResult(g[1], g[2], author0, Source("embedded")),
                   c0, cache, FALSE, FALSE)
         ELSE AfterGenre) : g \in {IF try_genre THEN classify_genre(embedded_genre) ELSE NoMatch}})) : seed \in {Seed}})
\* ---------------------------------------------------------------------------
\* Storage, exceptions, SQL helpers
\* ---------------------------------------------------------------------------

\* models/database.py Ebook: the columns the services read and write.
Ebook(cloud_file_id, cloud_file_path, title, author, category, sub_genre) ==
  [cloud_file_id |-> cloud_file_id, cloud_file_path |-> cloud_file_path, title |-> title,
   author |-> author, category |-> category, sub_genre |-> sub_genre]

\* No exception.
NoExc ==
  "<no exception>"

\* The classes an exception of a given class is an instance of.
ExcBases(exc) ==
  CASE exc = "ValueError" -> {"ValueError", "Exception"}
    [] exc = "TypeError" -> {"TypeError", "Exception"}
    [] exc = "AttributeError" -> {"AttributeError", "Exception"}
    [] exc = "OSError" -> {"OSError", "Exception"}
    [] exc = "IntegrityError" -> {"IntegrityError", "Exception"}
    [] OTHER -> {}

\* Fault model: an except clause that catches only ValueError and its bases.
CatchesValueErrorOnly(handler_class, exc) ==
  exc = "ValueError" /\ handler_class \in ExcBases(exc)

\* Fault model: an except clause that catches nothing.
CatchesNothing(handler_class, exc) ==
  FALSE

\* An "except handler_class" clause catches exc.
Catches(handler_class, exc) ==
  handler_class \in ExcBases(exc)

RECURSIVE Like(_, _)
\* SQLite's value LIKE pattern: % is any run, _ any character, ASCII case is ignored.
Like(value, pattern) ==
  IF pattern = "" THEN value = ""
  ELSE IF pattern = "%" THEN TRUE
  ELSE IF Head(pattern) = "%"
       THEN Like(value, Tail(pattern)) \/ (value # "" /\ Like(Tail(value), pattern))
  ELSE /\ value # ""
       /\ (Head(pattern) = "_" \/ LowerChar(Head(value)) = LowerChar(Head(pattern)))
       /\ Like(Tail(value), Tail(pattern))

\* Ebook.cloud_file_path.like(f"{source_path}%"); a NULL path never matches.
UnderSourcePath(ebook, source_path) ==
  ebook.cloud_file_path # None /\ Like(ebook.cloud_file_path, source_path \o "%")

RECURSIVE ParseDigits(_, _)
ParseDigits(s, acc) ==
  IF s = "" THEN acc
  ELSE ParseDigits(Tail(s), 10 * acc + (CHOOSE d \in 0..9 : CharAt(DIGITS, d + 1) = Head(s)))

\* int(str_id): the number, or -1 for the strings on which int() raises ValueError
\* (ids are not negative).
ParseInt(str_id) ==
  LET t == strip(str_id) IN
  IF AllDigits(t) THEN ParseDigits(t, 0) ELSE -1

\* The ids of a table in the order a query without ORDER BY returns its rows (by id).
RECURSIVE IdsInOrder(_)
IdsInOrder(ids) ==
  IF ids = {} THEN <<>>
  ELSE LET m == CHOOSE i \in ids : \A j \in ids : i <= j
       IN <<m>> \o IdsInOrder(ids \ {m})

\* query.limit(n).all()
Limit(seq, n) ==
  SubSeq(seq, 1, IF Len(seq) < n THEN Len(seq) ELSE n)

\* ---------------------------------------------------------------------------
\* organization_service.py
\* ---------------------------------------------------------------------------

\* The fields of the dataclass ClassificationResult: its constructor raises
\* TypeError on any other keyword.
CLASSIFICATION_RESULT_FIELDS ==
  {"category", "sub_genre", "author", "metadata_source"}

ConstructorAccepts(keywords) ==
  keywords \subseteq CLASSIFICATION_RESULT_FIELDS

\* Fault model: the already-classified test of lines 148-151 never succeeds.
NeverAlreadyClassified(ebook) ==
  FALSE

\* Lines 148-151 and 285-288: category and sub_genre are both set and not empty.
AlreadyClassified(ebook) ==
  Truthy(ebook.category) /\ Truthy(ebook.sub_genre)

\* Fault model: every author the classification found is written.
AnyAuthorIsBetter(result_author, stored_author) ==
  Truthy(result_author)

\* Line 187: the result has an author and the stored one is missing or not valid.
BetterAuthor(result_author, stored_author) ==
  Truthy(result_author) /\ (~Truthy(stored_author) \/ ~is_valid_author(stored_author))

\* classify_single_ebook(db, ebook_id, force_reclassify) on the session's
\* objects.  exc is the exception that leaves the function (NoExc if it
\* returns), committed tells whether db.commit() ran.
classify_single_ebook(sess, ebook_id, force_reclassify, cache, resp) ==
  LET nothing == ClassificationResult(None, None, None, "unknown")
      unchanged == [session |-> sess, cache |-> cache, calls |-> <<>>, live |-> FALSE,
                    slept |-> FALSE, committed |-> FALSE, was_updated |-> FALSE,
                    exc |-> NoExc, ret |-> nothing]
      \* Lines 153-194 for the row found
      Found(ebook) ==
        IF AlreadyClassified(ebook) /\ ~force_reclassify
        THEN [unchanged EXCEPT !.ret = ClassificationResult(ebook.category, ebook.sub_genre,
                                                            ebook.author, "existing")]
        ELSE
        TheOne({(
          IF out.raised
          THEN [unchanged EXCEPT !.cache = out.cache, !.calls = out.calls, !.live = out.live,
                                 !.slept = out.slept, !.exc = "AttributeError"]
          ELSE
          TheOne({(
            LET res == out.result
                e1 == IF Truthy(res.category) THEN [ebook EXCEPT !.category = res.category] ELSE ebook
                e2 == IF Truthy(res.sub_genre) THEN [e1 EXCEPT !.sub_genre = res.sub_genre] ELSE e1
                e3 == IF better_author THEN [e2 EXCEPT !.author = res.author] ELSE e2
                was_updated == Truthy(res.category) \/ Truthy(res.sub_genre) \/ better_author
            IN [session |-> [sess EXCEPT ![ebook_id] = e3], cache |-> out.cache,
                calls |-> out.calls, live |-> out.live, slept |-> out.slept,
                committed |-> was_updated, was_updated |-> was_updated,
                exc |-> NoExc, ret |-> res]) : better_author \in {BetterAuthor(out.result.author, ebook.author)}})) : out \in {classify_book(IF Truthy(ebook.cloud_file_path) THEN ebook.cloud_file_path ELSE ebook.title,
                           IF Truthy(ebook.sub_genre) THEN ebook.sub_genre ELSE None,
                           ebook.author, cache, resp)}})
  IN IF ebook_id \notin DOMAIN sess
     THEN [unchanged EXCEPT !.exc = "ValueError"]
     ELSE TheOne({(Found(ebook)) : ebook \in {sess[ebook_id]}})

\* TAXONOMY as the dict the service indexes: category in TAXONOMY, sub_genre in subgenres.
CategoryIndex(category) ==
  IF \E c \in 1..Len(TAXONOMY) : TAXONOMY[c].name = category
  THEN CHOOSE c \in 1..Len(TAXONOMY) : TAXONOMY[c].name = category
  ELSE 0

HasSubgenre(c, sub_genre) ==
  \E g \in 1..Len(TAXONOMY[c].subgenres) : TAXONOMY[c].subgenres[g].name = sub_genre

\* Lines 356-362: the first category, in declaration order, that has the sub-genre; 0 if none.
FirstCategoryWith(sub_genre) ==
  IF \E c \in 1..Len(TAXONOMY) : HasSubgenre(c, sub_genre)
  THEN CHOOSE c \in 1..Len(TAXONOMY) :
         HasSubgenre(c, sub_genre) /\ \A d \in 1..(c - 1) : ~HasSubgenre(d, sub_genre)
  ELSE 0

\* update_ebook_classification(db, ebook_id, category, sub_genre) on the
\* session's objects: session holds the writes made before the function returned
\* or raised, committed tells whether db.commit() ran.
update_ebook_classification(sess, ebook_id, category, sub_genre) ==
  LET ebook == sess[ebook_id]
      e1 == IF Truthy(category) THEN [ebook EXCEPT !.category = category] ELSE ebook
      cat == FirstCategoryWith(sub_genre)
      e2 == IF ~Truthy(category) THEN [e1 EXCEPT !.category = TAXONOMY[cat].name] ELSE e1
      e3 == [e2 EXCEPT !.sub_genre = sub_genre]
  IN IF ebook_id \notin DOMAIN sess
     THEN [session |-> sess, exc |-> "ValueError", committed |-> FALSE]
     ELSE IF Truthy(category) /\ CategoryIndex(category) = 0
     THEN [session |-> sess, exc |-> "ValueError", committed |-> FALSE]
     ELSE IF Truthy(sub_genre) /\ cat = 0
     THEN [session |-> [sess EXCEPT ![ebook_id] = e1], exc |-> "ValueError", committed |-> FALSE]
     ELSE IF Truthy(sub_genre)
     THEN [session |-> [sess EXCEPT ![ebook_id] = e3], exc |-> NoExc, committed |-> TRUE]
     ELSE [session |-> [sess EXCEPT ![ebook_id] = e1], exc |-> NoExc, committed |-> TRUE]

\* services/database.py get_db: the request's session is closed when the request
\* ends, which discards every write that was not committed.
CloseSession(store, sess, committed) ==
  IF committed THEN sess ELSE store


\* The dict built from the rows of a GROUP BY query: each value of the column
\* among the rows ids, with the number of those rows that carry it.
GroupCounts(rows, ids, column) ==
  [v \in {rows[i][column] : i \in ids} |->
     Cardinality({i \in ids : rows[i][column] = v})]

\* OrganizationStats(...) of lines 117-124, without coverage_percent.
OrganizationStats(total, classified, category_counts, subgenre_counts) ==
  [total_books |-> total, classified_books |-> classified,
   unclassified_books |-> total - classified,
   by_category |-> category_counts, by_sub_genre |-> subgenre_counts]

\* get_organization_stats(db, source_path): query is filtered by the prefix
\* (lines 85-88), the two breakdowns are queries of their own (lines 102-115).
get_organization_stats(rows, source_path) ==
  LET query == IF Truthy(source_path)
               THEN {i \in DOMAIN rows : UnderSourcePath(rows[i], source_path)}
               ELSE DOMAIN rows
      classified == {i \in query : /\ rows[i].category # None /\ rows[i].category # ""
                                   /\ rows[i].sub_genre # None /\ rows[i].sub_genre # ""}
      with_category == {i \in DOMAIN rows : rows[i].category # None /\ rows[i].category # ""}
      with_sub_genre == {i \in DOMAIN rows : rows[i].sub_genre # None /\ rows[i].sub_genre # ""}
  IN OrganizationStats(Cardinality(query), Cardinality(classified),
                       GroupCounts(rows, with_category, "category"),
                       GroupCounts(rows, with_sub_genre, "sub_genre"))
\* ---------------------------------------------------------------------------
\* The file system and os.path (posix)
\* ---------------------------------------------------------------------------

\* A disk: the regular files (path -> content) and the directories.
Disk(files, dirs) ==
  [files |-> files, dirs |-> dirs]

\* os.path.exists(p)
Exists(disk, p) ==
  p \in DOMAIN disk.files \/ p \in disk.dirs

\* os.path.isfile(p)
IsFile(disk, p) ==
  p \in DOMAIN disk.files

\* os.path.basename(p)
basename(p) ==
  From(p, LastIndexOf(p, "/") + 1)

\* os.path.dirname(p)
dirname(p) ==
  TheOne({(IF \A k \in 1..Len(head) : CharAt(head, k) = "/" THEN head
           ELSE rstripChars(head, "/")) : head \in {SubSeq(p, 1, LastIndexOf(p, "/"))}})

\* os.path.splitext(p): the extension starts at the last dot of the last
\* component, unless only dots precede it there.
splitext(p) ==
  TheOne({(
    IF a[2] > a[1] /\ \E k \in (a[1] + 1)..(a[2] - 1) : CharAt(p, k) # "."
    THEN <<SubSeq(p, 1, a[2] - 1), From(p, a[2])>>
    ELSE <<p, "">>) : a \in {<<LastIndexOf(p, "/"), LastIndexOf(p, ".")>>}})

RECURSIVE join(_, _)
\* os.path.join(path, *parts)
join(path, parts) ==
  IF parts = <<>> THEN path
  ELSE join(IF StartsWith(parts[1], "/") THEN parts[1]
            ELSE IF path = "" \/ EndsWith(path, "/") THEN path \o parts[1]
            ELSE path \o "/" \o parts[1],
            Tail(parts))

\* The directories os.makedirs(d) wants to exist: d and the directories above it.
DirsUpTo(d) ==
  {SubSeq(d, 1, i) : i \in {i \in 1..Len(d) : i = Len(d) \/ CharAt(d, i + 1) = "/"}}

\* os.makedirs(d, exist_ok=True) raises when a regular file is in the way.
makedirs_raises(disk, d) ==
  \E a \in DirsUpTo(d) : IsFile(disk, a)

makedirs(disk, d) ==
  [disk EXCEPT !.dirs = @ \cup DirsUpTo(d)]

\* Fault model: a move that leaves the source file in place.
MoveKeepsSource(disk, source, target) ==
  [disk EXCEPT !.files = [p \in DOMAIN @ \cup {target} |->
                            IF p = target THEN @[source] ELSE @[p]]]

\* Fault model: a move that leaves a file at the target alone and drops the source.
MoveNeverReplaces(disk, source, target) ==
  [disk EXCEPT !.files = [p \in (DOMAIN @ \ {source}) \cup {target} |->
                            IF p = target /\ target \notin DOMAIN @ THEN @[source] ELSE @[p]]]

\* shutil.move(source, target) for a target that is no directory: a rename,
\* which replaces a file that is at the target.
move(disk, source, target) ==
  [disk EXCEPT !.files = [p \in (DOMAIN @ \ {source}) \cup {target} |->
                            IF p = target THEN @[source] ELSE @[p]]]

\* shutil.copy2(source, target) for a target that is no directory.
copy2(disk, source, target) ==
  [disk EXCEPT !.files = [p \in DOMAIN @ \cup {target} |->
                            IF p = target THEN @[source] ELSE @[p]]]

RECURSIVE IntStr(_)
\* str(n) of a natural number
IntStr(n) ==
  IF n < 10 THEN CharAt(DIGITS, n + 1)
  ELSE IntStr(n \div 10) \o CharAt(DIGITS, (n % 10) + 1)

\* ---------------------------------------------------------------------------
\* file_organizer_service.py
\* ---------------------------------------------------------------------------

UNKNOWN_AUTHOR ==
  "Unknown Author"

UNCLASSIFIED_FOLDER ==
  "Unclassified"

INVALID_NAME_CHARS ==
  {"\\", "/", ":", "*", "?", "\"", "<", ">", "|"}

_sanitize_folder_name(name) ==
  TheOne({(
  TheOne({(
  TheOne({(IF stripped # "" THEN stripped ELSE "Unknown") : stripped \in {strip(joinWords(split(sanitized)))}})) : sanitized \in {Cat([i \in 1..Len(s) |->
                     IF CharAt(s, i) \in INVALID_NAME_CHARS THEN "_" ELSE CharAt(s, i)],
                   1, Len(s))}})) : s \in {name}})

\* The path tried for a counter: f"{base} ({counter}){ext}"
Numbered(base, counter, ext) ==
  base \o " (" \o IntStr(counter) \o ")" \o ext

RECURSIVE FreeCounter(_, _, _, _)
\* Lines 84-86: the first counter from the given one on whose path does not exist.
FreeCounter(disk, base, counter, ext) ==
  IF Exists(disk, Numbered(base, counter, ext))
  THEN FreeCounter(disk, base, counter + 1, ext)
  ELSE counter

_resolve_collision(disk, target_path) ==
  IF ~Exists(disk, target_path) THEN target_path
  ELSE TheOne({(Numbered(b[1], FreeCounter(disk, b[1], 1, b[2]), b[2])) : b \in {splitext(target_path)}})

_get_author_folder(ebook) ==
  IF Truthy(ebook.author)
  THEN TheOne({(
         IF Truthy(cleaned) /\ is_valid_author(cleaned) THEN _sanitize_folder_name(cleaned)
         ELSE UNKNOWN_AUTHOR) : cleaned \in {clean_author_name(ebook.author)}})
  ELSE UNKNOWN_AUTHOR

_is_classified(ebook) ==
  /\ Truthy(ebook.category) /\ strip(ebook.category) # ""
  /\ Truthy(ebook.sub_genre) /\ strip(ebook.sub_genre) # ""

compute_target_path(ebook, destination, is_classified) ==
  IF is_classified
  THEN join(destination, <<_sanitize_folder_name(ebook.category),
                           _sanitize_folder_name(ebook.sub_genre),
                           _get_author_folder(ebook),
                           basename(ebook.cloud_file_path)>>)
  ELSE join(destination, <<UNCLASSIFIED_FOLDER, basename(ebook.cloud_file_path)>>)

\* ReorganizeRequest / ReorganizePreviewRequest (routes/organization.py)
ReorganizeRequest(destination, source_path, include_unclassified, operation) ==
  [destination |-> destination, source_path |-> source_path,
   include_unclassified |-> include_unclassified, operation |-> operation]

PlannedMove(ebook_id, source_path, target_path, title, author, category, sub_genre) ==
  [ebook_id |-> ebook_id, source_path |-> source_path, target_path |-> target_path,
   title |-> title, author |-> author, category |-> category, sub_genre |-> sub_genre]

ReorganizePlan(destination, operation) ==
  [destination |-> destination, operation |-> operation, total_files |-> 0,
   classified_files |-> 0, unclassified_files |-> 0, collisions |-> 0, planned_moves |-> <<>>]

NoMappings ==
  [p \in {} |-> ""]

ReorganizeResult ==
  [total_processed |-> 0, succeeded |-> 0, skipped |-> 0, failed |-> 0, errors |-> <<>>,
   path_mappings |-> NoMappings]

\* db.query(Ebook) with the optional path filter, .all(): the ids in table order.
Candidates(rows, source_path) ==
  IdsInOrder({i \in DOMAIN rows :
                Truthy(source_path) => UnderSourcePath(rows[i], source_path)})

\* One iteration of the loop of generate_reorganize_plan, lines 160-189.
PlanOne(plan, ebook_id, ebook, disk, req) ==
  IF ~Truthy(ebook.cloud_file_path) THEN plan
  ELSE TheOne({(
    IF ~classified /\ ~req.include_unclassified THEN plan
    ELSE TheOne({(
         TheOne({(
           [plan EXCEPT
              !.collisions = IF resolved # target THEN @ + 1 ELSE @,
              !.planned_moves = Append(@, PlannedMove(
                  ebook_id, ebook.cloud_file_path, resolved,
                  IF Truthy(ebook.title) THEN ebook.title ELSE basename(ebook.cloud_file_path),
                  _get_author_folder(ebook),
                  IF Truthy(ebook.category) THEN ebook.category ELSE "",
                  IF Truthy(ebook.sub_genre) THEN ebook.sub_genre ELSE "")),
              !.classified_files = IF classified THEN @ + 1 ELSE @,
              !.unclassified_files = IF classified THEN @ ELSE @ + 1]
         ) : resolved \in {_resolve_collision(disk, target)}})
         ) : target \in {compute_target_path(ebook, req.destination, classified)}})
    ) : classified \in {_is_classified(ebook)}})

RECURSIVE PlanLoop(_, _, _, _, _)
PlanLoop(plan, ebooks, rows, disk, req) ==
  IF ebooks = <<>> THEN [plan EXCEPT !.total_files = Len(plan.planned_moves)]
  ELSE TheOne({(PlanLoop(next, Tail(ebooks), rows, disk, req)
       ) : next \in {PlanOne(plan, Head(ebooks), rows[Head(ebooks)], disk, req)}})

generate_reorganize_plan(rows, disk, req) ==
  PlanLoop(ReorganizePlan(req.destination, req.operation),
           Candidates(rows, req.source_path), rows, disk, req)

\* Fault model: every operation is accepted.
AnyOperation(operation) ==
  TRUE

\* Line 216: operation in ("move", "copy").
ValidOperation(operation) ==
  operation \in {"move", "copy"}

\* Fault model: a planning that creates the target directories.
PlanningMakesDirs(disk, plan) ==
  [disk EXCEPT !.dirs = @ \cup UNION {DirsUpTo(dirname(plan.planned_moves[m].target_path)) :
                                        m \in 1..Len(plan.planned_moves)}]

\* The disk after generate_reorganize_plan: of the os and shutil functions it
\* calls os.path.exists (through _resolve_collision) and os.path.basename only.
AfterPlanning(disk, plan) ==
  disk

\* What one iteration of the loop of execute_reorganization did: the outcome it
\* counted, the source and its content, the paths it computed, whether the
\* resolved target existed when _resolve_collision returned it, whether a file
\* operation was attempted.
ReorgStep(ebook_id, outcome, source, content, computed, target, target_existed, attempted) ==
  [ebook_id |-> ebook_id, outcome |-> outcome, source |-> source, content |-> content,
   computed |-> computed, target |-> target, target_existed |-> target_existed,
   attempted |-> attempted]

\* The operating-system errors an iteration can meet: none, or one raised by
\* os.makedirs, or one raised by shutil.move / shutil.copy2.
OsErrors ==
  {"none", "makedirs", "transfer"}

\* One iteration of the loop of execute_reorganization, lines 228-269.
ExecOne(sess, disk, result, ebook_id, req, os_error) ==
  TheOne({(
    IF ~Truthy(ebook.cloud_file_path) \/ (~_is_classified(ebook) /\ ~req.include_unclassified)
    THEN [session |-> sess, disk |-> disk, exc |-> NoExc,
          result |-> [result EXCEPT !.skipped = @ + 1],
          step |-> ReorgStep(ebook_id, "skipped", ebook.cloud_file_path, None, None, None, FALSE,
                             FALSE)]
    ELSE IF ~IsFile(disk, ebook.cloud_file_path)
    THEN [session |-> sess, disk |-> disk, exc |-> NoExc,
          result |-> [result EXCEPT
                        !.skipped = @ + 1,
                        !.errors = Append(@, "Source not found: " \o ebook.cloud_file_path)],
          step |-> ReorgStep(ebook_id, "skipped", ebook.cloud_file_path, None, None, None, FALSE,
                             FALSE)]
    ELSE TheOne({(
         TheOne({(
         TheOne({(
           IF raised = "makedirs" \/ raised = "transfer"
           THEN [session |-> sess,
                 disk |-> IF raised = "makedirs" THEN disk ELSE makedirs(disk, dirname(target)),
                 exc |-> "OSError",
                 result |-> IF Catches("Exception", "OSError")
                            THEN [result EXCEPT
                                    !.failed = @ + 1,
                                    !.total_processed = @ + 1,
                                    !.errors = Append(@, ebook.title \o ": " \o "OSError")]
                            ELSE result,
                 step |-> ReorgStep(ebook_id, "failed", ebook.cloud_file_path,
                                    disk.files[ebook.cloud_file_path], computed, target,
                                    Exists(disk, target), TRUE)]
           ELSE [session |-> IF req.operation = "move"
                             THEN [sess EXCEPT ![ebook_id].cloud_file_path = target,
                                               ![ebook_id].cloud_file_id = target]
                             ELSE sess,
                 disk |-> IF req.operation = "move"
                          THEN move(makedirs(disk, dirname(target)), ebook.cloud_file_path, target)
                          ELSE copy2(makedirs(disk, dirname(target)), ebook.cloud_file_path, target),
                 exc |-> NoExc,
                 result |-> [result EXCEPT
                               !.path_mappings = Put(@, ebook.cloud_file_path, target),
                               !.succeeded = @ + 1,
                               !.total_processed = @ + 1],
                 step |-> ReorgStep(ebook_id, "succeeded", ebook.cloud_file_path,
                                    disk.files[ebook.cloud_file_path], computed, target,
                                    Exists(disk, target), TRUE)]
         ) : raised \in {IF makedirs_raises(disk, dirname(target)) \/ os_error = "makedirs"
                         THEN "makedirs"
                         ELSE IF os_error = "transfer"
                                 \/ (req.operation = "copy" /\ ebook.cloud_file_path = target)
                         THEN "transfer"
                         ELSE "none"}})
         ) : target \in {_resolve_collision(disk, computed)}})
         ) : computed \in {compute_target_path(ebook, req.destination, _is_classified(ebook))}})
  ) : ebook \in {sess[ebook_id]}})

\* Fault model: a commit at the end of every iteration of the loop.
CommitEachIteration(store, sess) ==
  sess

\* The committed rows after one iteration of the loop (lines 227-269): the loop
\* assigns to attributes of the session's objects and calls neither db.commit()
\* nor db.flush(), so the committed rows stay what they were.
CommittedInLoop(store, sess) ==
  store

\* The unique constraint on cloud_file_id (models/database.py line 18).
UniqueFileIds(rows) ==
  \A i, j \in DOMAIN rows : i # j => rows[i].cloud_file_id # rows[j].cloud_file_id

\* db.commit() of line 272: the session writes its changed rows one UPDATE after
\* the other, in the order of their ids, and the database checks the unique
\* constraint on cloud_file_id at each UPDATE against the rows as they are then.
\* FlushFrom is FALSE when an UPDATE from the i-th row on is refused.
RECURSIVE FlushFrom(_, _, _)
FlushFrom(stored, sess, i) ==
  IF i \notin DOMAIN sess THEN TRUE
  ELSE IF sess[i] = stored[i] THEN FlushFrom(stored, sess, i + 1)
  ELSE IF \E j \in DOMAIN stored : j # i /\ stored[j].cloud_file_id = sess[i].cloud_file_id
  THEN FALSE
  ELSE FlushFrom([stored EXCEPT ![i] = sess[i]], sess, i + 1)

CommitRefused(store, sess) ==
  ~FlushFrom(store, sess, 1)
\* ---------------------------------------------------------------------------
\* State
\* ---------------------------------------------------------------------------

VARIABLES
  API_CACHE,   \* openlibrary_service.API_CACHE: cache key -> cached result or None
  cb,          \* the classify_book call under study: its arguments and its outcome
  db,          \* the committed rows of the ebooks table: id -> Ebook
  session,     \* the rows as the running request's session holds them (uncommitted writes included)
  batch,       \* the running batch_classify_ebooks call: position, arguments, locals, result
  last,        \* the request handled last and what it answered
  requests,    \* number of requests received
  fs,          \* the file system: regular files (path -> content) and directories
  reorg,       \* the reorganization requests: the last plan, the running or last execution
  call,        \* the call of a pure function under study: function, argument, results
  lookups,     \* the query_openlibrary calls under study, oldest first, and the clear_cache calls between them
  runs         \* the execute_reorganization runs of several server processes: each run's position and locals, and the file operations of both in the order they happened

vars ==
  <<API_CACHE, cb, db, session, batch, last, requests, fs, reorg, call, lookups, runs>>

\* A value no function returns: the call was not made yet.
NotReturned ==
  "<not returned>"

\* A call of the function fn on arg: n counts the applications, ret is the
\* result of the first, again the result of the second.
Call(fn, arg) ==
  [fn |-> fn, arg |-> arg, n |-> 0, ret |-> NotReturned, again |-> NotReturned]

\* No pure function is under study.
NoCall ==
  Call("none", "")

EmptyCache ==
  [k \in {} |-> NoResult]

NoRows ==
  [i \in {} |-> Ebook("", None, "", None, None, None)]

NoResults ==
  [i \in {} |-> ClassificationResult(None, None, None, "unknown")]

NoClassifications ==
  [p \in {} |-> [category |-> None, sub_genre |-> None]]

\* BatchClassifyRequest (routes/organization.py); overrides is the dict's items in order.
BatchClassifyRequest(ebook_ids, source_path, force_reclassify, limit, overrides) ==
  [ebook_ids |-> ebook_ids, source_path |-> source_path, force_reclassify |-> force_reclassify,
   limit |-> limit, overrides |-> overrides]

\* BatchClassificationResult() as constructed on line 219.
BatchClassificationResult ==
  [total_processed |-> 0, newly_classified |-> 0, already_classified |-> 0, failed |-> 0,
   results |-> NoResults, file_classifications |-> NoClassifications]

\* No batch is running.
NoBatch ==
  [pc |-> "idle", req |-> BatchClassifyRequest(<<>>, None, FALSE, 0, <<>>), overrides |-> <<>>,
   overridden_ids |-> {}, selected |-> <<>>, ebooks |-> <<>>,
   result |-> BatchClassificationResult, steps |-> <<>>]

\* The request that came before: its operation, record and returned classification.
Previous(op, id, ret) ==
  [op |-> op, id |-> id, ret |-> ret]

\* What a request answered: the operation and its arguments, the committed rows
\* before it, the rows as its session held them when the service function
\* returned or raised, the exception that left the service function, the HTTP
\* status, the returned classification, the strategies classify_book invoked,
\* and the request before this one.
Answer(op, id, args, before, rows, exc, status, ret, was_updated, calls, prev) ==
  [op |-> op, id |-> id, args |-> args, before |-> before, rows |-> rows, exc |-> exc,
   status |-> status, ret |-> ret, was_updated |-> was_updated, calls |-> calls,
   prev |-> prev]

NoArgs ==
  [force_reclassify |-> FALSE, category |-> None, sub_genre |-> None]

NoRequest ==
  Answer("none", 0, NoArgs, NoRows, NoRows, NoExc, 0,
         ClassificationResult(None, None, None, "unknown"), FALSE, <<>>,
         Previous("none", 0, ClassificationResult(None, None, None, "unknown")))


EmptyDisk ==
  Disk([p \in {} |-> ""], {})

\* No reorganization was requested yet.  plan, planned and planned_on are the
\* last preview, its request and the rows and disk it was computed on; the
\* other fields are the running or last execution: its position, request,
\* rows still to process, result, steps, the rows and disk it started on,
\* whether the last preview was made for the same request on that same state,
\* and the answer of the route.  repeated tells that the last preview came
\* directly after a preview for the same request.  prev is the request that
\* was answered before this one: its operation, its arguments and its status.
NoReorg ==
  [pc |-> "idle", op |-> "none", req |-> ReorganizeRequest("", None, FALSE, "move"),
   ebooks |-> <<>>, result |-> ReorganizeResult, steps |-> <<>>,
   started_on |-> [db |-> NoRows, fs |-> EmptyDisk],
   planned |-> FALSE, plan |-> ReorganizePlan("", "move"),
   plan_req |-> ReorganizeRequest("", None, FALSE, "move"),
   planned_on |-> [db |-> NoRows, fs |-> EmptyDisk], repeated |-> FALSE,
   predicted |-> FALSE, status |-> 0, exc |-> NoExc,
   prev |-> [op |-> "none", req |-> ReorganizeRequest("", None, FALSE, "move"), status |-> 0]]

\* One execute_reorganization run of the two: its position (idle, check: before
\* the next record; act: a target was resolved and the file operation is
\* next; done), its request, the records still to process, the rows it read,
\* its session, its result, and the target it resolved for the record at hand.
NoRun ==
  [pc |-> "idle", req |-> ReorganizeRequest("", None, FALSE, "move"), ebooks |-> <<>>,
   read |-> NoRows, session |-> NoRows, result |-> ReorganizeResult, target |-> None,
   exc |-> NoExc]

\* The number of runs at the same time.
NumRuns ==
  2

\* No run has started and no file operation was made.
NoRuns ==
  [run |-> [r \in 1..NumRuns |-> NoRun], log |-> <<>>]
\* ---------------------------------------------------------------------------
\* classify_book as a function of its inputs
\* ---------------------------------------------------------------------------

CbPaths ==
  { "/library/Isaac Asimov - Foundation.epub",
    "/library/fantasy/dark lord rising.epub",
    "/library/starship troopers.epub",
    "/library/notes.epub" }

CbGenres ==
  { None, "Science Fiction", "https://example.com/sf", "Miscellany" }

CbAuthors ==
  { None, "Isaac Asimov", "Unknown" }

ApiResponses ==
  { ErrorResponse,
    NoDocsResponse,
    DocResponse(<<"Robert A. Heinlein">>, <<"Fiction / Horror">>),
    DocResponse(<<None>>, <<"Accessible book">>),
    DocResponse(<<>>, <<"Romance">>),
    DocResponse(<<"Ann Author">>, <<NotAString>>) }

NotCalled ==
  [result |-> ClassificationResult(None, None, None, "unknown"), raised |-> FALSE,
   calls |-> <<>>, cache |-> EmptyCache,
   live |-> FALSE, slept |-> FALSE]

InitClassify ==
  /\ API_CACHE = EmptyCache
  /\ db = NoRows /\ session = NoRows /\ batch = NoBatch /\ last = NoRequest /\ requests = 0
  /\ fs = EmptyDisk /\ reorg = NoReorg /\ call = NoCall /\ lookups = <<>> /\ runs = NoRuns
  /\ cb \in [filepath : CbPaths, embedded_genre : CbGenres, embedded_author : CbAuthors,
             resp : {NoDocsResponse}, done : {FALSE}, out : {NotCalled}]

\* One call of classify_book on the chosen arguments; resp is the answer the
\* Open Library server gives if the call asks it.
ClassifyBook ==
  /\ ~cb.done
  /\ \E resp \in ApiResponses :
     \E out \in {classify_book(cb.filepath, cb.embedded_genre, cb.embedded_author,
                                API_CACHE, resp)} :
          /\ cb' = [cb EXCEPT !.resp = resp, !.done = TRUE, !.out = out]
          /\ API_CACHE' = out.cache
          /\ UNCHANGED <<db, session, batch, last, requests, fs, reorg, call, lookups, runs>>

NextClassify ==
  ClassifyBook

SpecClassify ==
  InitClassify /\ [][NextClassify]_vars

\* ---------------------------------------------------------------------------
\* batch_classify_ebooks, one step per loop iteration
\* ---------------------------------------------------------------------------

\* One iteration of a loop of batch_classify_ebooks: the record handled, how, and
\* what the iteration added to the counters.
Step(via, key, ebook_id, exc, total, newly, already, failed) ==
  [via |-> via, key |-> key, ebook_id |-> ebook_id, exc |-> exc, total_processed |-> total,
   newly_classified |-> newly, already_classified |-> already, failed |-> failed]

\* The keywords of the constructor call on lines 256-262.
OVERRIDE_RESULT_KEYWORDS ==
  {"category", "sub_genre", "author", "metadata_source", "was_updated"}

\* The body of the try on lines 226-262 for one item of overrides: the session
\* and the locals after it, and the exception that ended it (NoExc if none).
ApplyOverride(sess, b, str_id, data) ==
  LET ebook_id == ParseInt(str_id)
      ebook == sess[ebook_id]
      changed == ebook.category # data.category \/ ebook.sub_genre # data.sub_genre
      written == IF changed
                 THEN [ebook EXCEPT !.category = data.category, !.sub_genre = data.sub_genre]
                 ELSE ebook
      r1 == IF changed
            THEN [b.result EXCEPT !.newly_classified = @ + 1, !.total_processed = @ + 1]
            ELSE [b.result EXCEPT !.already_classified = @ + 1, !.total_processed = @ + 1]
      r2 == IF Truthy(written.cloud_file_path)
            THEN [r1 EXCEPT !.file_classifications =
                    Put(@, written.cloud_file_path,
                        [category |-> written.category, sub_genre |-> written.sub_genre])]
            ELSE r1
      r3 == [r2 EXCEPT !.results =
               Put(@, ebook_id, ClassificationResult(written.category, written.sub_genre,
                                                     written.author, "manual_override"))]
      accepted == ConstructorAccepts(OVERRIDE_RESULT_KEYWORDS)
  IN IF ebook_id = -1
     THEN [session |-> sess, b |-> b, exc |-> "ValueError",
           step |-> Step("override", str_id, ebook_id, "ValueError", 0, 0, 0, 0)]
     ELSE IF ebook_id \notin DOMAIN sess
     THEN [session |-> sess, b |-> b, exc |-> NoExc,
           step |-> Step("override", str_id, ebook_id, NoExc, 0, 0, 0, 0)]
     ELSE [session |-> [sess EXCEPT ![ebook_id] = written],
           b |-> [b EXCEPT !.result = IF accepted THEN r3 ELSE r2,
                           !.overridden_ids = @ \cup {ebook_id}],
           exc |-> IF accepted THEN NoExc ELSE "TypeError",
           step |-> Step("override", str_id, ebook_id,
                         IF accepted THEN NoExc ELSE "TypeError", 1,
                         IF changed THEN 1 ELSE 0, IF changed THEN 0 ELSE 1, 0)]

\* Lines 270-294: the rows the automatic classification will visit.
SelectEbooks(rows, req, overridden_ids) ==
  LET unclassified(e) == e.category = None \/ e.category = "" \/
                         e.sub_genre = None \/ e.sub_genre = ""
      listed == {req.ebook_ids[i] : i \in 1..Len(req.ebook_ids)}
      chosen == IF req.ebook_ids # <<>>
                THEN {i \in DOMAIN rows : i \in listed /\ i \notin overridden_ids}
                ELSE {i \in DOMAIN rows :
                        /\ Truthy(req.source_path) => UnderSourcePath(rows[i], req.source_path)
                        /\ ~req.force_reclassify => unclassified(rows[i])
                        /\ i \notin overridden_ids}
  IN Limit(IdsInOrder(chosen), req.limit)

\* The error entry of lines 318-320.
ErrorResult(exc) ==
  ClassificationResult(None, None, None, "error: " \o exc)

\* Lines 298-320 for one row: the result record after the iteration.
CountClassified(result, ebook_id, ebook, out) ==
  LET r1 == [result EXCEPT !.results = Put(@, ebook_id, out.ret), !.total_processed = @ + 1]
      r2 == IF Truthy(ebook.cloud_file_path)
            THEN [r1 EXCEPT !.file_classifications =
                    Put(@, ebook.cloud_file_path,
                        [category |-> out.ret.category, sub_genre |-> out.ret.sub_genre])]
            ELSE r1
  IN IF out.was_updated
     THEN [r2 EXCEPT !.newly_classified = @ + 1]
     ELSE [r2 EXCEPT !.already_classified = @ + 1]

\* ---------------------------------------------------------------------------
\* The organization routes
\* ---------------------------------------------------------------------------

NumBooks ==
  2

MaxRequests ==
  2

\* Unclassified rows: classified by folder, by their own sub_genre hint, by
\* nothing local (no path), carrying a hint that is no Taxonomy genre, and one
\* with a valid author that clean_author_name shortens and nothing local to
\* classify it by.
OrgBooks ==
  { Ebook("/lib/Fantasy/Dune.epub", "/lib/Fantasy/Dune.epub", "Dune", "Frank Herbert", None, None),
    Ebook("/lib/misc/zzz.epub", "/lib/misc/zzz.epub", "zzz", None, None, "sci-fi"),
    Ebook("drive:17", None, "Starship Troopers", "Unknown", None, None),
    Ebook("/lib/misc/notes.epub", "/lib/misc/notes.epub", "notes", None, None, "Miscellany"),
    Ebook("/lib/misc/ubik.epub", "/lib/misc/ubik.epub", "Ubik", "Philip K. Dick, 1928-1982", None, None) }

OrgResponses ==
  { NoDocsResponse,
    DocResponse(<<"Robert A. Heinlein">>, <<"Fiction / Horror">>),
    DocResponse(<<"Ann Author">>, <<NotAString>>) }

UpdateCategories ==
  { None, "Fiction", "Bogus" }

UpdateSubGenres ==
  { None, "Fantasy", "History", "Other", "Bogus" }

Override(category, sub_genre) ==
  [category |-> category, sub_genre |-> sub_genre]

BatchRequests ==
  { BatchClassifyRequest(<<>>, None, FALSE, 100, <<>>),
    BatchClassifyRequest(<<>>, "/LIB/m", TRUE, 100, <<>>),
    BatchClassifyRequest(<<1, 2>>, None, FALSE, 1, <<>>),
    BatchClassifyRequest(<<>>, None, FALSE, 100, << <<"1", Override("Fiction", "Fantasy")>> >>),
    BatchClassifyRequest(<<1, 2>>, None, TRUE, 100, << <<"2", Override("Fiction", "History")>> >>),
    BatchClassifyRequest(<<>>, None, FALSE, 100,
                         << <<"1", Override("Mine", None)>>, <<"01", Override("Mine", None)>> >>),
    BatchClassifyRequest(<<2>>, None, FALSE, 100,
                         << <<"x", Override("Fiction", "Fantasy")>>,
                            <<"9", Override("Fiction", "Fantasy")>> >>) }

InitOrg ==
  /\ API_CACHE = EmptyCache
  /\ cb = [filepath |-> "", embedded_genre |-> None, embedded_author |-> None,
           resp |-> NoDocsResponse, done |-> TRUE, out |-> NotCalled]
  /\ db \in {rows \in [1..NumBooks -> OrgBooks] : UniqueFileIds(rows)}
  /\ session = db
  /\ batch = NoBatch
  /\ last = NoRequest
  /\ requests = 0
  /\ fs = EmptyDisk
  /\ reorg = NoReorg /\ call = NoCall /\ lookups = <<>> /\ runs = NoRuns

\* POST /classify/{ebook_id} (routes/organization.py 183-207) with its session.
ClassifyEbook(ebook_id, force_reclassify, resp) ==
  /\ batch.pc = "idle" /\ requests < MaxRequests
  /\ \E out \in {classify_single_ebook(db, ebook_id, force_reclassify, API_CACHE, resp)} :
     LET status == IF out.exc = NoExc THEN 200
                   ELSE IF Catches("ValueError", out.exc) THEN 404 ELSE 500
     IN /\ db' = CloseSession(db, out.session, out.committed)
        /\ API_CACHE' = out.cache
        /\ last' = Answer("classify", ebook_id,
                          [NoArgs EXCEPT !.force_reclassify = force_reclassify],
                          db, out.session, out.exc, status, out.ret, out.was_updated,
                          out.calls, Previous(last.op, last.id, last.ret))
  /\ session' = db'
  /\ batch' = NoBatch
  /\ requests' = requests + 1
  /\ UNCHANGED <<cb, fs, reorg, call, lookups, runs>>

\* PUT /classify/{ebook_id} (routes/organization.py 238-255) with its session.
UpdateClassification(ebook_id, category, sub_genre) ==
  /\ batch.pc = "idle" /\ requests < MaxRequests
  /\ \E out \in {update_ebook_classification(db, ebook_id, category, sub_genre)} :
     LET status == IF out.exc = NoExc THEN 200
                   ELSE IF Catches("ValueError", out.exc) THEN 400 ELSE 500
     IN /\ db' = CloseSession(db, out.session, out.committed)
        /\ last' = Answer("update", ebook_id,
                          [NoArgs EXCEPT !.category = category, !.sub_genre = sub_genre],
                          db, out.session, out.exc, status, NoRequest.ret, FALSE, <<>>,
                          Previous(last.op, last.id, last.ret))
  /\ session' = db'
  /\ batch' = NoBatch
  /\ requests' = requests + 1
  /\ UNCHANGED <<API_CACHE, cb, fs, reorg, call, lookups, runs>>

\* POST /batch-classify arrives: lines 219-220.
BatchClassify(req) ==
  /\ batch.pc = "idle" /\ requests < MaxRequests
  /\ batch' = [NoBatch EXCEPT !.pc = "overrides", !.req = req, !.overrides = req.overrides]
  /\ session' = db
  /\ last' = Answer("batch-classify", 0, NoArgs, db, db, NoExc, 0, NoRequest.ret, FALSE, <<>>,
                    Previous(last.op, last.id, last.ret))
  /\ requests' = requests + 1
  /\ UNCHANGED <<API_CACHE, cb, db, fs, reorg, call, lookups, runs>>

\* The request ends with an exception nobody caught: 500, the session is closed.
Abort(exc) ==
  /\ batch' = [batch EXCEPT !.pc = "idle"]
  /\ last' = [last EXCEPT !.rows = session, !.exc = exc, !.status = 500]
  /\ session' = db

\* One iteration of the loop over overrides.items(), lines 224-264.
OverrideStep ==
  /\ batch.pc = "overrides" /\ batch.overrides # <<>>
  /\ \E out \in {ApplyOverride(session, batch, Head(batch.overrides)[1],
                                 Head(batch.overrides)[2])} :
     LET b1 == [out.b EXCEPT !.overrides = Tail(@)]
     IN IF out.exc = NoExc
        THEN /\ batch' = [b1 EXCEPT !.steps = Append(@, out.step)]
             /\ session' = out.session
             /\ UNCHANGED last
        ELSE IF Catches("Exception", out.exc)
        THEN /\ batch' = [b1 EXCEPT !.result.failed = @ + 1,
                                    !.steps = Append(@, [out.step EXCEPT !.failed = 1])]
             /\ session' = out.session
             /\ UNCHANGED last
        ELSE Abort(out.exc)
  /\ UNCHANGED <<API_CACHE, cb, db, requests, fs, reorg, call, lookups, runs>>

\* Lines 267-294: the overrides are committed and the rows to classify are read.
BatchQuery ==
  /\ batch.pc = "overrides" /\ batch.overrides = <<>>
  /\ db' = CloseSession(db, session, batch.req.overrides # <<>>)
  /\ \E ebooks \in {SelectEbooks(db', batch.req, batch.overridden_ids)} :
       batch' = [batch EXCEPT !.pc = "classify", !.selected = ebooks, !.ebooks = ebooks]
  /\ UNCHANGED <<API_CACHE, cb, session, last, requests, fs, reorg, call, lookups, runs>>

\* One iteration of the loop over ebooks, lines 296-320.
ClassifyStep(resp) ==
  /\ batch.pc = "classify" /\ batch.ebooks # <<>>
  /\ \E out \in {classify_single_ebook(session, Head(batch.ebooks),
                                         batch.req.force_reclassify, API_CACHE, resp)} :
     LET ebook_id == Head(batch.ebooks)
         b1 == [batch EXCEPT !.ebooks = Tail(@)]
     IN /\ API_CACHE' = out.cache
        /\ db' = CloseSession(db, out.session, out.committed)
        /\ IF out.exc = NoExc
           THEN /\ batch' = [b1 EXCEPT
                       !.result = CountClassified(@, ebook_id, out.session[ebook_id], out),
                       !.steps = Append(@, Step("auto", "", ebook_id, NoExc, 1,
                                                IF out.was_updated THEN 1 ELSE 0,
                                                IF out.was_updated THEN 0 ELSE 1, 0))]
                /\ session' = out.session
                /\ UNCHANGED last
           ELSE IF Catches("Exception", out.exc)
           THEN /\ batch' = [b1 EXCEPT
                       !.result.failed = @ + 1,
                       !.result.results = Put(@, ebook_id, ErrorResult(out.exc)),
                       !.steps = Append(@, Step("auto", "", ebook_id, out.exc, 0, 0, 0, 1))]
                /\ session' = out.session
                /\ UNCHANGED last
           ELSE Abort(out.exc)
  /\ UNCHANGED <<cb, requests, fs, reorg, call, lookups, runs>>

\* Line 322 and the route's response (routes/organization.py 229-235).
BatchReturn ==
  /\ batch.pc = "classify" /\ batch.ebooks = <<>>
  /\ batch' = [batch EXCEPT !.pc = "idle"]
  /\ last' = [last EXCEPT !.rows = session, !.status = 200]
  /\ session' = db
  /\ UNCHANGED <<API_CACHE, cb, db, requests, fs, reorg, call, lookups, runs>>

NextOrg ==
  \/ \E i \in 1..(NumBooks + 1), force \in BOOLEAN, resp \in OrgResponses :
       ClassifyEbook(i, force, resp)
  \/ \E i \in 1..(NumBooks + 1), category \in UpdateCategories, sub_genre \in UpdateSubGenres :
       UpdateClassification(i, category, sub_genre)
  \/ \E req \in BatchRequests : BatchClassify(req)
  \/ OverrideStep
  \/ BatchQuery
  \/ \E resp \in OrgResponses : ClassifyStep(resp)
  \/ BatchReturn

SpecOrg ==
  InitOrg /\ [][NextOrg]_vars


\* ---------------------------------------------------------------------------
\* Reorganization: POST /reorganize-preview and POST /reorganize
\* ---------------------------------------------------------------------------

Destination ==
  "/out"

\* Where the classified copies of Dune go.
DuneTarget ==
  "/out/Fiction/Fantasy/Frank Herbert/Dune.epub"

\* Rows as sync_service stores them (cloud_file_id = cloud_file_path) and one
\* without a path: two copies of one book in two folders whose authors clean
\* to the same name, a row that is already at its target, a row without a path,
\* an unclassified row.
ReorgBooks ==
  { Ebook("/in/a/Dune.epub", "/in/a/Dune.epub", "Dune", "Frank Herbert", "Fiction", "Fantasy"),
    Ebook("/in/b/Dune.epub", "/in/b/Dune.epub", "Dune", "Frank Herbert.", "Fiction", "Fantasy"),
    Ebook(DuneTarget, DuneTarget, "Dune", "Frank Herbert", "Fiction", "Fantasy"),
    Ebook("drive:17", None, "Starship Troopers", "Unknown", "Fiction", "Science Fiction"),
    Ebook("/in/a/notes.epub", "/in/a/notes.epub", "notes", "Unknown", None, "sci-fi") }

ReorgRequests ==
  { ReorganizeRequest(Destination, None, TRUE, "move"),
    ReorganizeRequest(Destination, "/in", FALSE, "copy"),
    ReorganizeRequest(Destination, None, FALSE, "link") }

\* The disk on which the paths of S are regular files, each with its own content.
DiskWith(S) ==
  Disk([p \in S |-> p], UNION {DirsUpTo(dirname(p)) : p \in S})

\* The paths the rows name.
StoredPaths(rows) ==
  {rows[i].cloud_file_path : i \in DOMAIN rows} \ {None}

InitReorg ==
  /\ API_CACHE = EmptyCache
  /\ cb = [filepath |-> "", embedded_genre |-> None, embedded_author |-> None,
           resp |-> NoDocsResponse, done |-> TRUE, out |-> NotCalled]
  /\ batch = NoBatch
  /\ last = NoRequest
  /\ requests = 0
  /\ db \in {rows \in [1..NumBooks -> ReorgBooks] : UniqueFileIds(rows)}
  /\ session = db
  /\ fs \in {DiskWith(S) : S \in SUBSET (StoredPaths(db) \cup {DuneTarget})}
  /\ reorg = NoReorg /\ call = NoCall /\ lookups = <<>> /\ runs = NoRuns

\* POST /reorganize-preview (routes/organization.py 304-344).
ReorganizePreview(req) ==
  /\ reorg.pc = "idle" /\ requests < MaxRequests
  /\ reorg' = [NoReorg EXCEPT !.op = "preview", !.planned = TRUE,
                              !.plan = generate_reorganize_plan(db, fs, req),
                              !.plan_req = req,
                              !.planned_on = [db |-> db, fs |-> fs],
                              !.repeated = reorg.op = "preview" /\ reorg.plan_req = req,
                              !.prev = [op |-> reorg.op, status |-> reorg.status,
                                        req |-> IF reorg.op = "preview" THEN reorg.plan_req
                                                ELSE reorg.req],
                              !.status = 200]
  /\ fs' = AfterPlanning(fs, reorg'.plan)
  /\ requests' = requests + 1
  /\ UNCHANGED <<API_CACHE, cb, db, session, batch, last, call, lookups, runs>>

\* POST /reorganize arrives: lines 216-225 of execute_reorganization.
Reorganize(req) ==
  /\ reorg.pc = "idle" /\ requests < MaxRequests
  /\ IF ~ValidOperation(req.operation)
     THEN reorg' = [reorg EXCEPT !.op = "reorganize", !.req = req, !.ebooks = <<>>,
                                 !.prev = [op |-> reorg.op, status |-> reorg.status,
                                           req |-> IF reorg.op = "preview" THEN reorg.plan_req
                                                   ELSE reorg.req],
                                 !.result = ReorganizeResult, !.steps = <<>>,
                                 !.started_on = [db |-> db, fs |-> fs],
                                 !.predicted = FALSE, !.exc = "ValueError",
                                 !.status = IF Catches("ValueError", "ValueError") THEN 400 ELSE 500]
     ELSE reorg' = [reorg EXCEPT !.pc = "exec", !.op = "reorganize", !.req = req,
                                 !.prev = [op |-> reorg.op, status |-> reorg.status,
                                           req |-> IF reorg.op = "preview" THEN reorg.plan_req
                                                   ELSE reorg.req],
                                 !.ebooks = Candidates(db, req.source_path),
                                 !.result = ReorganizeResult, !.steps = <<>>,
                                 !.started_on = [db |-> db, fs |-> fs],
                                 !.predicted = /\ reorg.planned /\ reorg.plan_req = req
                                               /\ reorg.planned_on = [db |-> db, fs |-> fs],
                                 !.exc = NoExc, !.status = 0]
  /\ session' = db
  /\ requests' = requests + 1
  /\ UNCHANGED <<API_CACHE, cb, db, batch, last, fs, call, lookups, runs>>

\* One iteration of the loop of execute_reorganization, lines 227-269.
ReorganizeStep(os_error) ==
  /\ reorg.pc = "exec" /\ reorg.ebooks # <<>>
  /\ \E out \in {ExecOne(session, fs, reorg.result, Head(reorg.ebooks), reorg.req, os_error)} :
       /\ os_error # "none" => out.step.attempted
       /\ fs' = out.disk
       /\ IF out.exc = NoExc \/ Catches("Exception", out.exc)
          THEN /\ session' = out.session
               /\ reorg' = [reorg EXCEPT !.ebooks = Tail(@), !.result = out.result,
                                         !.steps = Append(@, out.step)]
          ELSE /\ session' = db
               /\ reorg' = [reorg EXCEPT !.pc = "idle", !.exc = out.exc, !.status = 500,
                                         !.steps = Append(@, out.step)]
       /\ db' = CommittedInLoop(db, session')
  /\ UNCHANGED <<API_CACHE, cb, batch, last, requests, call, lookups, runs>>

\* The run is interrupted between two iterations of the loop (the process is
\* stopped, or a KeyboardInterrupt, which "except Exception" on line 266 does
\* not catch, leaves the function): no response is sent, the session is closed
\* without a commit, the disk stays as the iterations so far left it.
ReorganizeInterrupted ==
  /\ reorg.pc = "exec" /\ reorg.steps # <<>> /\ reorg.ebooks # <<>>
  /\ reorg' = [reorg EXCEPT !.pc = "idle", !.exc = "KeyboardInterrupt", !.status = 0]
  /\ session' = CloseSession(db, session, FALSE)
  /\ UNCHANGED <<API_CACHE, cb, db, batch, last, requests, fs, call, lookups, runs>>

\* Lines 271-274 and the route's response (routes/organization.py 366-375):
\* the commit, which the unique constraint on cloud_file_id can refuse.
ReorganizeReturn ==
  /\ reorg.pc = "exec" /\ reorg.ebooks = <<>>
  /\ IF reorg.result.succeeded > 0 /\ CommitRefused(db, session)
     THEN /\ reorg' = [reorg EXCEPT !.pc = "idle", !.exc = "IntegrityError",
                         !.status = IF Catches("ValueError", "IntegrityError") THEN 400 ELSE 500]
          /\ UNCHANGED db
     ELSE /\ reorg' = [reorg EXCEPT !.pc = "idle", !.status = 200]
          /\ db' = CloseSession(db, session, reorg.result.succeeded > 0)
  /\ session' = db'
  /\ UNCHANGED <<API_CACHE, cb, batch, last, requests, fs, call, lookups, runs>>

NextReorg ==
  \/ \E req \in ReorgRequests : ReorganizePreview(req)
  \/ \E req \in ReorgRequests : Reorganize(req)
  \/ \E os_error \in OsErrors : ReorganizeStep(os_error)
  \/ ReorganizeReturn

SpecReorg ==
  InitReorg /\ [][NextReorg]_vars

\* The same requests on a server that can be stopped while a run is in its loop.
NextReorgInterruptible ==
  \/ NextReorg
  \/ ReorganizeInterrupted

SpecReorgInterruptible ==
  InitReorg /\ [][NextReorgInterruptible]_vars

\* ---------------------------------------------------------------------------
\* The pure functions of taxonomy.py and metadata_classifier.py, each applied
\* to an input drawn from the taxonomy tables and from the strings the tests
\* use.
\* ---------------------------------------------------------------------------

\* The (category index, sub-genre index) pairs of TAXONOMY.
SubgenreIndexes ==
  UNION {{<<c, g>> : g \in 1..Len(TAXONOMY[c].subgenres)} : c \in 1..Len(TAXONOMY)}

\* The strings TAXONOMY declares under the sub-genre cg: its name and its aliases.
DeclaredNames(cg) ==
  {TAXONOMY[cg[1]].subgenres[cg[2]].name}
    \cup {TAXONOMY[cg[1]].subgenres[cg[2]].aliases[a] :
            a \in 1..Len(TAXONOMY[cg[1]].subgenres[cg[2]].aliases)}

\* The sub-genres the scan of classify_genre looks at: all but "Other".
MatchedSubgenres ==
  {cg \in SubgenreIndexes : TAXONOMY[cg[1]].subgenres[cg[2]].name # "Other"}

\* Every name and alias of a matched sub-genre, as declared and in upper case.
TaxonomyGenres ==
  UNION {DeclaredNames(cg) \cup {upper(x) : x \in DeclaredNames(cg)} : cg \in MatchedSubgenres}

\* Broad genres, compound genres and junk values of the genre field.
OtherGenres ==
  { "non-fiction", "nonfiction", "Non-Fiction", "Nonfiction books", "weird fiction",
    "pulp-fiction", "general", "epic fantasy fiction", "BiOgRaPhY", "   ",
    "https://example.com", "http://example.com/horror", "www.example.com",
    "www.fantasy.com", "archive.org horror", "see archive.org",
    "IndirectObject(12, 0)", "123", "2024", "ab", "x",
    "Fiction -- Fantasy", "Cats -- Fiction", " -- fantasy",
    "aaaaaaaaaaaaaaaaaaaaaaaaaaaaaaaaaaaaaaaaaaaaaaaaaaaaaaaaaaaa",
    "a fantasy novel about dragons, wizards and a very long quest",
    "fantasy and science fiction and mystery and horror",
    "fantasy and science fiction and mystery and horror!" }

GenreInputs ==
  TaxonomyGenres \cup OtherGenres

\* Paths of book files below folders that name genres, literally or inside a longer name.
FolderInputs ==
  { "/library/science fiction/book.epub", "/library/biography/book.epub",
    "/library/my_science_fiction_books/book.epub", "/library/SCIENCE FICTION/book.epub",
    "/library/Philosophy/book.epub", "/home/user/books/fantasy/epic/book.epub",
    "/library/fantasy/scifi/book.epub", "/library/sci-fi/fantasy/book.epub",
    "/library/my_fantasy_books/book.epub", "/library/historical_romance/book.epub",
    "/library/horror/my_fantasy_books/book.epub", "/library/my_fantasy_books/horror/book.epub",
    "/library/old crime novels/book.epub", "/library/misc/book.epub", "book.epub",
    "/library/sci-fi_shelf/book.epub", "/library/kids comics/book.epub" }

\* Author fields: bare names, and names with a role, life dates and punctuation behind them.
AuthorInputs ==
  { "Charles Dickens", "Charles Dickens, 1812-1870, author.", "Isaac Asimov, 1920-1992, author",
    "Mark Twain, 1835-1910", "Stephen King, 1947-", "Jane Austen author", "Jane Austen, editor",
    "Leo Tolstoy translator", "Grimm compiled by", "J.R.R. Tolkien.", "Homer;", "Plato, 1954-.",
    "Mark Twain 1835-1910 author", "Ann Author", "author", " author", "  ", "",
    "Virginia Woolf, 1882-1941.", "H. G. Wells, 1866 - 1946", "Bram Stoker: editor ",
    "Mary Shelley, Translator", "Jules Verne, author, 1828-1905" }

\* The names of the sub-genres a stored record can carry besides "Other".
StoredSubGenres ==
  {TAXONOMY[cg[1]].subgenres[cg[2]].name : cg \in MatchedSubgenres}

\* Where the file of the reclassified record lies: below a folder that names no
\* genre, and below one that names a genre.
ReclassifiedPaths ==
  { "/library/misc/book.epub", "/library/horror/book.epub" }

\* Rows of a library with two folders: classified, half classified, unclassified
\* and without a path.
StatsBooks ==
  { Ebook("a1", "/lib/a/Dune.epub", "Dune", "Frank Herbert", "Fiction", "Science Fiction"),
    Ebook("a2", "/lib/a/notes.epub", "notes", None, "Fiction", None),
    Ebook("b1", "/lib/b/Emma.epub", "Emma", "Jane Austen", "Fiction", "Romance"),
    Ebook("b2", "/lib/b/Cosmos.epub", "Cosmos", "Carl Sagan", "Non-Fiction", "Science Fiction"),
    Ebook("b3", "/lib/b/zzz.epub", "zzz", None, None, None),
    Ebook("drive:17", None, "Ubik", None, "", "") }

\* The source_path arguments of get_organization_stats.
StatsPaths ==
  { None, "", "/lib/a", "/lib/b", "/lib", "/other" }

InitFunctions ==
  /\ API_CACHE = EmptyCache
  /\ batch = NoBatch /\ last = NoRequest /\ requests = 0
  /\ fs = EmptyDisk /\ reorg = NoReorg /\ lookups = <<>> /\ runs = NoRuns
  /\ cb = [filepath |-> "", embedded_genre |-> None, embedded_author |-> None,
           resp |-> NoDocsResponse, done |-> FALSE, out |-> NotCalled]
  /\ call \in {Call("classify_genre", g) : g \in GenreInputs}
                \cup {Call("classify_from_folder", p) : p \in FolderInputs}
                \cup {Call("clean_author_name", a) : a \in AuthorInputs}
                \cup {Call("classify_single_ebook", g) : g \in StoredSubGenres}
                \cup {Call("get_organization_stats", p) : p \in StatsPaths}
  /\ db \in IF call.fn = "get_organization_stats"
            THEN {rows \in [1..NumBooks -> StatsBooks] : UniqueFileIds(rows)}
            ELSE {NoRows}
  /\ session = db

\* classify_genre(arg), and the same call once more.
ClassifyGenre ==
  /\ call.fn = "classify_genre"
  /\ call.n < 2
  /\ \E r \in {classify_genre(call.arg)} :
       call' = IF call.n = 0 THEN [call EXCEPT !.n = 1, !.ret = r]
               ELSE [call EXCEPT !.n = 2, !.again = r]
  /\ UNCHANGED <<API_CACHE, cb, db, session, batch, last, requests, fs, reorg, lookups, runs>>

\* classify_from_folder(Path(arg))
ClassifyFromFolder ==
  /\ call.fn = "classify_from_folder"
  /\ call.n = 0
  /\ call' = [call EXCEPT !.n = 1, !.ret = classify_from_folder(call.arg)]
  /\ UNCHANGED <<API_CACHE, cb, db, session, batch, last, requests, fs, reorg, lookups, runs>>

\* clean_author_name(arg), then clean_author_name of what it returned.
CleanAuthorName ==
  /\ call.fn = "clean_author_name"
  /\ call.n < 2
  /\ call' = IF call.n = 0 THEN [call EXCEPT !.n = 1, !.ret = clean_author_name(call.arg)]
             ELSE [call EXCEPT !.n = 2, !.again = clean_author_name(call.ret)]
  /\ UNCHANGED <<API_CACHE, cb, db, session, batch, last, requests, fs, reorg, lookups, runs>>

\* classify_single_ebook(db, 1, force_reclassify=True) on a session whose record 1
\* is stored with a category of TAXONOMY and its sub-genre arg.
ReclassifyStored ==
  /\ call.fn = "classify_single_ebook"
  /\ call.n = 0
  /\ \E cg \in MatchedSubgenres, path \in ReclassifiedPaths :
       /\ TAXONOMY[cg[1]].subgenres[cg[2]].name = call.arg
       /\ \E rows \in {<<Ebook(path, path, "book", None, TAXONOMY[cg[1]].name, call.arg)>>} :
          \E out \in {classify_single_ebook(rows, 1, TRUE, API_CACHE, NoDocsResponse)} :
            /\ db' = CloseSession(rows, out.session, out.committed)
            /\ session' = db'
            /\ API_CACHE' = out.cache
            /\ last' = Answer("classify", 1, [NoArgs EXCEPT !.force_reclassify = TRUE],
                              rows, out.session, out.exc, 0, out.ret, out.was_updated,
                              out.calls, Previous(last.op, last.id, last.ret))
            /\ call' = [call EXCEPT !.n = 1]
  /\ UNCHANGED <<cb, batch, requests, fs, reorg, lookups, runs>>

\* GET /stats (routes/organization.py 144-163): get_organization_stats(db, arg).
GetOrganizationStats ==
  /\ call.fn = "get_organization_stats"
  /\ call.n = 0
  /\ call' = [call EXCEPT !.n = 1, !.ret = get_organization_stats(db, call.arg)]
  /\ UNCHANGED <<API_CACHE, cb, db, session, batch, last, requests, fs, reorg, lookups, runs>>

NextFunctions ==
  \/ ClassifyGenre
  \/ ClassifyFromFolder
  \/ CleanAuthorName
  \/ ReclassifyStored
  \/ GetOrganizationStats

SpecFunctions ==
  InitFunctions /\ [][NextFunctions]_vars

\* ---------------------------------------------------------------------------
\* Calls of query_openlibrary and clear_cache, one after the other, in one
\* process (openlibrary_service.py)
\* ---------------------------------------------------------------------------

MaxLookups ==
  3

LookupTitles ==
  {"Dune", "Emma", ""}

LookupAuthors ==
  {None, "Frank Herbert"}

\* One entry of lookups: a query_openlibrary call with its arguments, what it
\* returned, whether it sent a request and whether the rate-limit delay ran; or
\* a clear_cache call.
Lookup(op, title, author, ret, live, slept) ==
  [op |-> op, title |-> title, author |-> author, ret |-> ret, live |-> live, slept |-> slept]

InitLookup ==
  /\ API_CACHE = EmptyCache
  /\ db = NoRows /\ session = NoRows /\ batch = NoBatch /\ last = NoRequest /\ requests = 0
  /\ fs = EmptyDisk /\ reorg = NoReorg /\ call = NoCall
  /\ cb = [filepath |-> "", embedded_genre |-> None, embedded_author |-> None,
           resp |-> NoDocsResponse, done |-> FALSE, out |-> NotCalled]
  /\ lookups = <<>> /\ runs = NoRuns

\* query_openlibrary(title, author); resp is what the server answers if asked.
QueryOpenlibrary(title, author, resp) ==
  /\ Len(lookups) < MaxLookups
  /\ \E out \in {query_openlibrary(title, author, API_CACHE, resp)} :
       /\ API_CACHE' = out.cache
       /\ lookups' = Append(lookups, Lookup("query", title, author, out.ret, out.live, out.slept))
  /\ UNCHANGED <<cb, db, session, batch, last, requests, fs, reorg, call, runs>>

\* clear_cache()
ClearCache ==
  /\ Len(lookups) < MaxLookups
  /\ API_CACHE' = EmptyCache
  /\ lookups' = Append(lookups, Lookup("clear", "", None, NoResult, FALSE, FALSE))
  /\ UNCHANGED <<cb, db, session, batch, last, requests, fs, reorg, call, runs>>

NextLookup ==
  \/ \E title \in LookupTitles, author \in LookupAuthors, resp \in ApiResponses :
       QueryOpenlibrary(title, author, resp)
  \/ ClearCache

SpecLookup ==
  InitLookup /\ [][NextLookup]_vars

\* ---------------------------------------------------------------------------
\* Two execute_reorganization runs at the same time (two server processes on
\* one library): between the existence check of _resolve_collision (line 246)
\* and the file operation (lines 250-253) of one run the other run can act.
\* ---------------------------------------------------------------------------

\* A file operation of one of the runs: the run, the record, the outcome, the
\* source and its content, the resolved target, the content that was at the
\* target when the operation began (None: nothing was there) and the content
\* that was there when it ended.
FileOperation(run, ebook_id, outcome, source, content, target, replaced, written) ==
  [run |-> run, ebook_id |-> ebook_id, outcome |-> outcome, source |-> source,
   content |-> content, target |-> target, replaced |-> replaced, written |-> written]

\* Lines 229-246 for one record: it is skipped, or a target is resolved for it
\* on the disk as it is at this moment.
ResolveOne(sess, disk, result, ebook_id, req) ==
  TheOne({(
    IF ~Truthy(ebook.cloud_file_path) \/ (~_is_classified(ebook) /\ ~req.include_unclassified)
    THEN [skipped |-> TRUE, result |-> [result EXCEPT !.skipped = @ + 1], target |-> None]
    ELSE IF ~IsFile(disk, ebook.cloud_file_path)
    THEN [skipped |-> TRUE,
          result |-> [result EXCEPT
                        !.skipped = @ + 1,
                        !.errors = Append(@, "Source not found: " \o ebook.cloud_file_path)],
          target |-> None]
    ELSE [skipped |-> FALSE, result |-> result,
          target |-> _resolve_collision(disk, compute_target_path(ebook, req.destination,
                                                                  _is_classified(ebook)))]
  ) : ebook \in {sess[ebook_id]}})

\* Lines 248-269 for one record and its resolved target, on the disk as it is
\* now: os.makedirs, the move or copy, the path update and the counters; an
\* OSError (a file in the way of a directory, a source that is gone, a copy
\* onto itself) is caught and counted.
TransferOne(sess, disk, result, ebook_id, req, target) ==
  TheOne({(
    IF makedirs_raises(disk, dirname(target))
    THEN [session |-> sess, disk |-> disk, succeeded |-> FALSE,
          result |-> [result EXCEPT !.failed = @ + 1, !.total_processed = @ + 1,
                                    !.errors = Append(@, ebook.title \o ": " \o "OSError")]]
    ELSE IF ~IsFile(disk, ebook.cloud_file_path)
            \/ (req.operation = "copy" /\ ebook.cloud_file_path = target)
    THEN [session |-> sess, disk |-> makedirs(disk, dirname(target)), succeeded |-> FALSE,
          result |-> [result EXCEPT !.failed = @ + 1, !.total_processed = @ + 1,
                                    !.errors = Append(@, ebook.title \o ": " \o "OSError")]]
    ELSE [session |-> IF req.operation = "move"
                      THEN [sess EXCEPT ![ebook_id].cloud_file_path = target,
                                        ![ebook_id].cloud_file_id = target]
                      ELSE sess,
          disk |-> IF req.operation = "move"
                   THEN move(makedirs(disk, dirname(target)), ebook.cloud_file_path, target)
                   ELSE copy2(makedirs(disk, dirname(target)), ebook.cloud_file_path, target),
          succeeded |-> TRUE,
          result |-> [result EXCEPT !.path_mappings = Put(@, ebook.cloud_file_path, target),
                                    !.succeeded = @ + 1, !.total_processed = @ + 1]]
  ) : ebook \in {sess[ebook_id]}})

\* db.commit() of a session next to another one: an UPDATE for every row the
\* session changed since it read it, in the order of the ids, each checked
\* against the unique constraint on cloud_file_id.  The result is the rows
\* after the commit, or refused (IntegrityError) with the rows as they were.
RECURSIVE FlushChanged(_, _, _, _, _)
FlushChanged(before, stored, read, sess, i) ==
  IF i \notin DOMAIN sess THEN [refused |-> FALSE, rows |-> stored]
  ELSE IF sess[i] = read[i] THEN FlushChanged(before, stored, read, sess, i + 1)
  ELSE IF \E j \in DOMAIN stored : j # i /\ stored[j].cloud_file_id = sess[i].cloud_file_id
  THEN [refused |-> TRUE, rows |-> before]
  ELSE FlushChanged(before, [stored EXCEPT ![i] = sess[i]], read, sess, i + 1)

\* The two copies of Dune, each in its folder.
RaceBooks ==
  <<Ebook("/in/a/Dune.epub", "/in/a/Dune.epub", "Dune", "Frank Herbert", "Fiction", "Fantasy"),
    Ebook("/in/b/Dune.epub", "/in/b/Dune.epub", "Dune", "Frank Herbert.", "Fiction", "Fantasy")>>

RaceRequests ==
  { ReorganizeRequest(Destination, "/in/a", FALSE, "move"),
    ReorganizeRequest(Destination, "/in/b", FALSE, "move"),
    ReorganizeRequest(Destination, None, FALSE, "copy") }

InitRace ==
  /\ API_CACHE = EmptyCache
  /\ cb = [filepath |-> "", embedded_genre |-> None, embedded_author |-> None,
           resp |-> NoDocsResponse, done |-> TRUE, out |-> NotCalled]
  /\ batch = NoBatch /\ last = NoRequest /\ requests = 0
  /\ reorg = NoReorg /\ call = NoCall /\ lookups = <<>>
  /\ db = RaceBooks /\ session = db
  /\ fs \in {DiskWith(S) : S \in SUBSET (StoredPaths(db) \cup {DuneTarget})}
  /\ runs = NoRuns

\* Run r starts: lines 216-225.
RunStart(r, req) ==
  /\ runs.run[r].pc = "idle"
  /\ runs' = [runs EXCEPT !.run[r] = [NoRun EXCEPT !.pc = "check", !.req = req,
                                                   !.ebooks = Candidates(db, req.source_path),
                                                   !.read = db, !.session = db]]
  /\ UNCHANGED <<API_CACHE, cb, db, session, batch, last, requests, fs, reorg, call, lookups>>

\* Run r takes its next record up to the existence check (lines 229-246).
RunResolve(r) ==
  /\ runs.run[r].pc = "check" /\ runs.run[r].ebooks # <<>>
  /\ \E me \in {runs.run[r]} :
     \E out \in {ResolveOne(me.session, fs, me.result, Head(me.ebooks), me.req)} :
       runs' = [runs EXCEPT !.run[r] =
                  IF out.skipped
                  THEN [me EXCEPT !.ebooks = Tail(@), !.result = out.result]
                  ELSE [me EXCEPT !.pc = "act", !.target = out.target]]
  /\ UNCHANGED <<API_CACHE, cb, db, session, batch, last, requests, fs, reorg, call, lookups>>

\* Run r makes the directories and moves or copies the file (lines 248-269).
RunTransfer(r) ==
  /\ runs.run[r].pc = "act"
  /\ \E me \in {runs.run[r]} :
     \E ebook_id \in {Head(me.ebooks)} :
     \E out \in {TransferOne(me.session, fs, me.result, ebook_id, me.req, me.target)} :
       /\ fs' = out.disk
       /\ runs' = [runs EXCEPT
            !.run[r] = [me EXCEPT !.pc = "check", !.ebooks = Tail(@), !.target = None,
                                  !.session = out.session, !.result = out.result],
            !.log = Append(@, FileOperation(
                      r, ebook_id, IF out.succeeded THEN "succeeded" ELSE "failed",
                      me.session[ebook_id].cloud_file_path,
                      IF IsFile(fs, me.session[ebook_id].cloud_file_path)
                      THEN fs.files[me.session[ebook_id].cloud_file_path] ELSE None,
                      me.target,
                      IF IsFile(fs, me.target) THEN fs.files[me.target] ELSE None,
                      IF IsFile(out.disk, me.target) THEN out.disk.files[me.target] ELSE None))]
  /\ UNCHANGED <<API_CACHE, cb, db, session, batch, last, requests, reorg, call, lookups>>

\* Run r leaves the loop: the commit of lines 271-272 and the return.
RunReturn(r) ==
  /\ runs.run[r].pc = "check" /\ runs.run[r].ebooks = <<>>
  /\ \E me \in {runs.run[r]} :
     \E commit \in {IF me.result.succeeded > 0
                    THEN FlushChanged(db, db, me.read, me.session, 1)
                    ELSE [refused |-> FALSE, rows |-> db]} :
       /\ db' = commit.rows
       /\ runs' = [runs EXCEPT !.run[r] =
                     [me EXCEPT !.pc = "done",
                                !.exc = IF commit.refused THEN "IntegrityError" ELSE NoExc]]
  /\ session' = db'
  /\ UNCHANGED <<API_CACHE, cb, batch, last, requests, fs, reorg, call, lookups>>

NextRace ==
  \/ \E r \in 1..NumRuns, req \in RaceRequests : RunStart(r, req)
  \/ \E r \in 1..NumRuns : RunResolve(r)
  \/ \E r \in 1..NumRuns : RunTransfer(r)
  \/ \E r \in 1..NumRuns : RunReturn(r)

SpecRace ==
  InitRace /\ [][NextRace]_vars


\* ---------------------------------------------------------------------------
\* Properties
\* ---------------------------------------------------------------------------

\* A strategy yields when it gives both a category and a sub-genre.
Yields(pair) ==
  Truthy(pair[1]) /\ Truthy(pair[2])

\* (category, sub_genre) is a pair of the Taxonomy.
TaxonomyPair(category, sub_genre) ==
  \E c \in 1..Len(TAXONOMY) :
    /\ TAXONOMY[c].name = category
    /\ \E g \in 1..Len(TAXONOMY[c].subgenres) : TAXONOMY[c].subgenres[g].name = sub_genre

\* ---- C1 ----

\* The strategies of a finished classify_book call, recomputed one by one on the
\* call's arguments: the first that yields must be the one whose pair was
\* returned, and the recorded calls must stop there.
C1_FirstYieldDecides ==
  LET out == cb.out
      try_genre == Truthy(cb.embedded_genre) /\ is_printable_text(cb.embedded_genre)
      c0 == IF try_genre THEN <<"embedded_genre">> ELSE <<>>
      pair == <<out.result.category, out.result.sub_genre>>
  IN
  \E g \in {IF try_genre THEN classify_genre(cb.embedded_genre) ELSE NoMatch} :
    IF Yields(g)
    THEN ~out.raised /\ pair = g /\ out.calls = c0 /\ ~out.live /\ API_CACHE = EmptyCache
    ELSE
    \E f \in {classify_from_folder(cb.filepath)} :
      IF Yields(f)
      THEN /\ ~out.raised /\ pair = f /\ out.calls = c0 \o <<"folder">>
           /\ ~out.live /\ API_CACHE = EmptyCache
      ELSE
      \E api \in {lookup_book_metadata(PathStr(cb.filepath), out.result.author, EmptyCache,
                                       cb.resp)} :
        IF api.raised
        THEN out.raised /\ out.calls = c0 \o <<"folder", "api">>
        ELSE IF Yields(<<api.category, api.subgenre>>)
        THEN /\ ~out.raised /\ pair = <<api.category, api.subgenre>>
             /\ out.calls = c0 \o <<"folder", "api">>
        ELSE
        \E t \in {classify_from_title(PathStem(cb.filepath))} :
          IF Yields(t)
          THEN ~out.raised /\ pair = t /\ out.calls = c0 \o <<"folder", "api", "title">>
          ELSE /\ ~out.raised /\ pair = <<None, None>>
               /\ out.calls \in {c0 \o <<"folder", "api", "title">>,
                                 c0 \o <<"folder", "api", "title", "filename">>}

\* C1: classify_book consults embedded genre, folder, external lookup and title
\* keywords in this strict order and returns at the first strategy that yields
\* both a category and a sub-genre: that pair is the result and no later
\* strategy, in particular no external lookup, is invoked.  With the embedded
\* genre 'Science Fiction' the result is (Fiction, Science Fiction) whatever the
\* folders and the title say.
C1_StrictOrder ==
  cb.done =>
    /\ C1_FirstYieldDecides
    /\ cb.embedded_genre = "Science Fiction" =>
         /\ cb.out.result.category = "Fiction"
         /\ cb.out.result.sub_genre = "Science Fiction"
         /\ cb.out.calls = <<"embedded_genre">>

\* An embedded 'Science Fiction' decided for a file in a folder named fantasy.
C1_Witness ==
  /\ cb.done
  /\ cb.embedded_genre = "Science Fiction"
  /\ cb.filepath = "/library/fantasy/dark lord rising.epub"
  /\ cb.out.result.category = "Fiction" /\ cb.out.result.sub_genre = "Science Fiction"
  /\ cb.out.calls = <<"embedded_genre">>

\* ---- C2 ----

\* A batch_classify_ebooks call that returned.
BatchReturned ==
  last.op = "batch-classify" /\ batch.pc = "idle" /\ last.status = 200

\* C2: in one batch_classify_ebooks call a record whose id appears in overrides
\* is processed exactly once, by the override path: it is not classified
\* automatically in the same call, and it is counted once, never twice, in the
\* aggregate counts of the result.
C2_OverriddenRecordCountedOnce ==
  BatchReturned =>
    \A id \in batch.overridden_ids :
      LET mine == {k \in 1..Len(batch.steps) : batch.steps[k].ebook_id = id}
      IN /\ Cardinality(mine) = 1
         /\ \A k \in mine :
              /\ batch.steps[k].via = "override"
              /\ batch.steps[k].newly_classified + batch.steps[k].already_classified
                   + batch.steps[k].failed = 1

\* ---- C3 ----

\* C3: batch_classify_ebooks never aborts because of one record: an exception
\* raised while one override is applied or one record is classified is caught
\* and counted in failed, every remaining override and record is still
\* processed, and the call returns its aggregate result.
C3_BatchNeverAborts ==
  last.op = "batch-classify" =>
    LET steps == batch.steps
        n == Len(batch.req.overrides)
    IN /\ last.status # 500 /\ last.exc = NoExc
       /\ \A k \in 1..Len(steps) : steps[k].exc # NoExc => steps[k].failed = 1
       /\ batch.result.failed = Cardinality({k \in 1..Len(steps) : steps[k].failed = 1})
       /\ batch.pc = "overrides" => Len(steps) + Len(batch.overrides) = n
       /\ batch.pc = "classify" => Len(steps) + Len(batch.ebooks) = n + Len(batch.selected)
       /\ batch.pc = "idle" =>
            /\ last.status = 200
            /\ Len(steps) = n + Len(batch.selected)
            /\ \A k \in 1..n :
                 steps[k].via = "override" /\ steps[k].key = batch.req.overrides[k][1]
            /\ \A j \in 1..Len(batch.selected) :
                 steps[n + j].via = "auto" /\ steps[n + j].ebook_id = batch.selected[j]

\* A batch returned although one of its iterations, not the last, raised.
C3_Witness ==
  /\ BatchReturned
  /\ \E k \in 1..(Len(batch.steps) - 1) :
       batch.steps[k].exc # NoExc /\ batch.steps[k].failed = 1
  /\ \E k \in 1..Len(batch.steps) :
       batch.steps[k].via = "auto" /\ batch.steps[k].exc = "AttributeError"

\* ---- C4 ----

\* The target compute_target_path gives a planned move, on the rows the plan read.
PlannedComputed(m) ==
  TheOne({(compute_target_path(ebook, reorg.plan_req.destination, _is_classified(ebook))
          ) : ebook \in {reorg.planned_on.db[reorg.plan.planned_moves[m].ebook_id]}})

\* The suffixed path the k-th later record of a group gets.
Suffixed(target, k) ==
  IF k = 0 THEN target
  ELSE TheOne({(Numbered(b[1], k, b[2])) : b \in {splitext(target)}})

\* The planned moves before the j-th whose file is on disk and whose computed
\* target is c.
EarlierPlanned(j, c) ==
  {i \in 1..(j - 1) : /\ IsFile(reorg.planned_on.fs, reorg.plan.planned_moves[i].source_path)
                      /\ PlannedComputed(i) = c}

\* The iterations before the j-th that moved or copied a file whose computed
\* target is c.
EarlierExecuted(j, c) ==
  {i \in 1..(j - 1) : reorg.steps[i].outcome = "succeeded" /\ reorg.steps[i].computed = c}

\* C4: collision resolution never returns a path that exists when it is called,
\* and when N records of one reorganization, planned or executed, map to the
\* same computed target, their N resolved targets are pairwise distinct: the
\* first keeps the target, the others get ' (1)' to ' (N-1)' before the
\* extension, in processing order.  (Stated for records whose file is on disk
\* and for targets that are free, with their suffixed names, when the
\* reorganization starts.)
C4_CollidingRecordsGetDistinctTargets ==
  /\ \A k \in 1..Len(reorg.steps) : ~reorg.steps[k].target_existed
  /\ reorg.planned =>
       LET moves == reorg.plan.planned_moves
       IN \A j \in 1..Len(moves) :
            /\ ~Exists(reorg.planned_on.fs, moves[j].target_path)
            /\ IsFile(reorg.planned_on.fs, moves[j].source_path) =>
                 \E c \in {PlannedComputed(j)} :
                   (\A k \in 0..Len(moves) : ~Exists(reorg.planned_on.fs, Suffixed(c, k))) =>
                     moves[j].target_path = Suffixed(c, Cardinality(EarlierPlanned(j, c)))
  /\ reorg.op = "reorganize" =>
       LET steps == reorg.steps
       IN \A j \in 1..Len(steps) :
            steps[j].outcome = "succeeded" =>
              \E c \in {steps[j].computed} :
                (\A k \in 0..Len(steps) : ~Exists(reorg.started_on.fs, Suffixed(c, k))) =>
                  steps[j].target = Suffixed(c, Cardinality(EarlierExecuted(j, c)))

\* ---- C5 ----

\* An execute_reorganization call that returned its result.
ReorganizeReturned ==
  reorg.op = "reorganize" /\ reorg.pc = "idle" /\ reorg.status = 200

\* C5: with no change of files or records between the two calls,
\* generate_reorganize_plan predicts execute_reorganization called with the
\* same arguments: every record that execution moves or copies is in the plan
\* with exactly the target it ends up at, and every planned move is carried
\* out to its planned target.  (Stated for runs in which the file of every
\* planned record is on disk and no operating-system error occurs.)
C5_PlanPredictsExecution ==
  ( /\ ReorganizeReturned /\ reorg.predicted /\ reorg.result.failed = 0
    /\ \A m \in 1..Len(reorg.plan.planned_moves) :
         IsFile(reorg.started_on.fs, reorg.plan.planned_moves[m].source_path) ) =>
    LET moves == reorg.plan.planned_moves
        steps == reorg.steps
    IN /\ \A k \in 1..Len(steps) :
            steps[k].outcome = "succeeded" =>
              \E m \in 1..Len(moves) :
                /\ moves[m].ebook_id = steps[k].ebook_id
                /\ moves[m].target_path = steps[k].target
       /\ \A m \in 1..Len(moves) :
            \E k \in 1..Len(steps) :
              /\ steps[k].outcome = "succeeded"
              /\ steps[k].ebook_id = moves[m].ebook_id
              /\ steps[k].target = moves[m].target_path

\* ---- C6 ----

CountOutcome(o) ==
  Cardinality({k \in 1..Len(reorg.steps) : reorg.steps[k].outcome = o})

\* The counters of execute_reorganization account for the candidates one by one.
C7_Counters ==
  reorg.op = "reorganize" /\ reorg.req.operation \in {"move", "copy"} =>
    LET steps == reorg.steps
    IN \E cands \in {Candidates(reorg.started_on.db, reorg.req.source_path)} :
         /\ reorg.result.succeeded = CountOutcome("succeeded")
         /\ reorg.result.skipped = CountOutcome("skipped")
         /\ reorg.result.failed = CountOutcome("failed")
         /\ reorg.result.succeeded + reorg.result.skipped + reorg.result.failed = Len(steps)
         /\ Len(reorg.result.errors) >= reorg.result.failed
         /\ Len(steps) + Len(reorg.ebooks) = Len(cands)
         /\ \A k \in 1..Len(steps) :
              /\ steps[k].ebook_id = cands[k]
              /\ steps[k].outcome \in {"succeeded", "skipped", "failed"}
              /\ steps[k].outcome = "skipped" => ~steps[k].attempted
              /\ steps[k].outcome = "failed" => steps[k].attempted

\* What one iteration of the loop does with the record it visits.
C7_Iteration ==
  reorg.pc = "exec" /\ reorg.ebooks # <<>> /\ reorg' # reorg =>
    LET ebook == session[Head(reorg.ebooks)]
        st == reorg'.steps[Len(reorg'.steps)]
    IN /\ Len(reorg'.steps) = Len(reorg.steps) + 1
       /\ st.ebook_id = Head(reorg.ebooks)
       /\ (~Truthy(ebook.cloud_file_path) \/ ~IsFile(fs, ebook.cloud_file_path)) =>
            /\ st.outcome = "skipped" /\ ~st.attempted
            /\ fs' = fs /\ session' = session
            /\ reorg'.result.failed = reorg.result.failed
       /\ st.outcome = "failed" =>
            /\ reorg'.result.failed = reorg.result.failed + 1
            /\ reorg'.result.errors = Append(reorg.result.errors, ebook.title \o ": OSError")
       /\ reorg'.pc = "exec" /\ reorg'.ebooks = Tail(reorg.ebooks)

\* C7: in execute_reorganization every candidate record is counted in exactly
\* one of succeeded, skipped and failed: a record without a stored path or
\* whose source file is not on disk is skipped, never failed, and no file
\* operation is attempted for it; a record whose move or copy raises is counted
\* as failed with a message in errors; in both cases the loop goes on with the
\* next record.
C7_EveryCandidateCountedOnce ==
  [](C7_Counters) /\ [][C7_Iteration]_vars

\* A run that returned after it skipped a record whose file was missing and
\* failed on another.
C7_Witness ==
  /\ ReorganizeReturned
  /\ Len(reorg.steps) = 2
  /\ reorg.result.skipped = 1 /\ reorg.result.failed = 1
  /\ Len(reorg.result.errors) = 2

\* ---- C8 ----

\* C8: after any sequence of classify_single_ebook, batch_classify_ebooks
\* (overrides included) and update_ebook_classification calls on records that
\* start unclassified, every record whose category and sub_genre are both
\* non-empty holds a pair of the Taxonomy.
C8_ClassifiedRecordsHoldTaxonomyPairs ==
  \A i \in DOMAIN db :
    Truthy(db[i].category) /\ Truthy(db[i].sub_genre) =>
      TaxonomyPair(db[i].category, db[i].sub_genre)

\* ---- C9 ----

\* C9: update_ebook_classification rejects with ValueError a category that is
\* no Taxonomy category and a sub_genre that is in no Taxonomy category; on
\* rejection the record's category and sub_genre are unchanged, also when a
\* valid category comes with an invalid sub_genre; when only a sub_genre is
\* given, the category is set to a Taxonomy category that contains it.
C9_RejectionLeavesRecordUnchanged ==
  last.op = "update" /\ last.id \in DOMAIN last.before =>
    LET category == last.args.category
        sub_genre == last.args.sub_genre
        old == last.before[last.id]
        new == last.rows[last.id]
        bad_category == Truthy(category) /\ \A c \in 1..Len(TAXONOMY) : TAXONOMY[c].name # category
        bad_sub_genre == Truthy(sub_genre) /\ \A c \in 1..Len(TAXONOMY) :
                           ~TaxonomyPair(TAXONOMY[c].name, sub_genre)
    IN /\ bad_category \/ bad_sub_genre => last.exc = "ValueError" /\ last.status = 400
       /\ last.exc = "ValueError" =>
            new.category = old.category /\ new.sub_genre = old.sub_genre
       /\ ~Truthy(category) /\ Truthy(sub_genre) /\ ~bad_sub_genre =>
            /\ last.exc = NoExc
            /\ new.sub_genre = sub_genre
            /\ TaxonomyPair(new.category, sub_genre)

\* ---- C10 ----

\* C10: classify_single_ebook on a record that is already classified, called
\* without force_reclassify, is a no-op: it returns the stored category,
\* sub_genre and author with metadata_source 'existing' and was_updated False,
\* invokes no classification strategy and changes no field of the record;
\* calling it again after a successful classification is such a no-op.
C10_ExistingIsNoOp ==
  last.op = "classify" /\ ~last.args.force_reclassify /\ last.id \in DOMAIN last.before =>
    LET old == last.before[last.id]
        noop == /\ last.exc = NoExc /\ last.status = 200
                /\ last.ret = ClassificationResult(old.category, old.sub_genre, old.author,
                                                   "existing")
                /\ ~last.was_updated
                /\ last.calls = <<>>
                /\ last.rows = last.before
                /\ db = last.before
    IN /\ Truthy(old.category) /\ Truthy(old.sub_genre) => noop
       /\ ( /\ last.prev.op = "classify" /\ last.prev.id = last.id
            /\ Truthy(last.prev.ret.category) /\ Truthy(last.prev.ret.sub_genre) ) => noop

\* A record was classified by a first call and then classified again, unforced.
C10_Witness ==
  /\ last.op = "classify" /\ ~last.args.force_reclassify
  /\ last.prev.op = "classify" /\ last.prev.id = last.id
  /\ last.prev.ret.category = "Fiction" /\ last.prev.ret.metadata_source # "existing"
  /\ last.ret.metadata_source = "existing"
  /\ last.ret.category = "Fiction" /\ last.ret.sub_genre = "Fantasy"

\* ---- C11 ----

\* The author classify_book seeds from an embedded author (lines 235-239), None
\* if it seeds none.
SeededAuthor(embedded_author) ==
  IF Truthy(embedded_author) /\ is_printable_text(embedded_author)
  THEN TheOne({(IF cleaned # None /\ is_valid_author(cleaned) THEN cleaned ELSE None
               ) : cleaned \in {clean_author_name(embedded_author)}})
  ELSE None

\* What a classify request that ran classify_book did with the author.
C11_ClassifyKeepsValidAuthor ==
  (last.op = "classify" /\ last.exc = NoExc /\ last.ret.metadata_source # "existing") =>
    \E old \in {last.before[last.id]}, new \in {last.rows[last.id]} :
    \E seeded \in {SeededAuthor(old.author)} :
      /\ (Truthy(old.author) /\ is_valid_author(old.author)) => new.author = old.author
      /\ new.author # old.author => new.author = last.ret.author /\ Truthy(last.ret.author)
      /\ seeded # None => last.ret.author = seeded
      /\ db[last.id].author = new.author

\* No request step replaces a committed valid author.
C11_StepKeepsValidAuthor ==
  \A i \in DOMAIN db :
    (Truthy(db[i].author) /\ is_valid_author(db[i].author)) =>
      db'[i].author = db[i].author /\ session'[i].author = db[i].author

\* C11: no author that is already valid is ever replaced by classification:
\* classify_single_ebook writes the result's author only when the stored author
\* is missing or fails is_valid_author, and classify_book adopts the author of
\* the external lookup only when no valid embedded author was seeded.
C11_ValidAuthorNeverReplaced ==
  [](C11_ClassifyKeepsValidAuthor) /\ [][C11_StepKeepsValidAuthor]_vars

\* A classification by the external lookup of a record whose stored author is
\* valid: the lookup's author is not adopted and the stored author stays,
\* although the result carries the cleaned name.
C11_Witness ==
  /\ last.op = "classify" /\ last.exc = NoExc /\ last.ret.metadata_source = "api"
  /\ last.before[last.id].author = "Philip K. Dick, 1928-1982"
  /\ last.ret.author = "Philip K. Dick"
  /\ db[last.id].author = "Philip K. Dick, 1928-1982"
  /\ db[last.id].category = "Fiction"

\* ---- C12 ----

\* The strategy that was invoked last by the call of classify_book under study.
LastCall ==
  IF cb.out.calls = <<>> THEN "none" ELSE cb.out.calls[Len(cb.out.calls)]

\* The metadata_source the result must carry.
ExpectedSource ==
  TheOne({(
    IF Truthy(cb.out.result.category) /\ LastCall = "api" THEN "api"
    ELSE IF seeded # None THEN "embedded"
    ELSE IF Truthy(cb.out.result.category)
    THEN (CASE LastCall = "embedded_genre" -> "embedded"
            [] LastCall = "folder" -> "folder"
            [] LastCall = "title" -> "title"
            [] OTHER -> "nothing")
    ELSE IF Truthy(cb.out.result.author) THEN "filename"
    ELSE "unknown") : seeded \in {SeededAuthor(cb.embedded_author)}})

\* C12: in the result of classify_book metadata_source is 'api' whenever the
\* category came from the external lookup; otherwise 'embedded' if a valid
\* embedded author was seeded; otherwise the strategy that produced the
\* category ('embedded', 'folder' or 'title'), or 'filename' when only a
\* filename author was found.  A path under a folder 'fantasy' with no embedded
\* data yields (Fiction, Fantasy) with source 'folder'; an invalid embedded
\* author with an 'Author - Title' filename and no category yields that author
\* with source 'filename'.
C12_MetadataSource ==
  (cb.done /\ ~cb.out.raised) =>
    /\ cb.out.result.metadata_source = ExpectedSource
    /\ (cb.filepath = "/library/fantasy/dark lord rising.epub"
          /\ cb.embedded_genre = None /\ cb.embedded_author = None) =>
         cb.out.result = ClassificationResult("Fiction", "Fantasy", None, "folder")
    /\ (cb.filepath = "/library/Isaac Asimov - Foundation.epub"
          /\ cb.embedded_author = "Unknown" /\ ~Truthy(cb.out.result.category)) =>
         cb.out.result = ClassificationResult(None, None, "Isaac Asimov", "filename")

\* The filename fallback happened: no category, the embedded author rejected,
\* the author taken from the file name.
C12_Witness ==
  /\ cb.done /\ ~cb.out.raised
  /\ cb.embedded_author = "Unknown"
  /\ cb.out.result = ClassificationResult(None, None, "Isaac Asimov", "filename")
  /\ LastCall = "filename"

\* ---- C13 ----

\* The request failed (timeout, network error, undecodable JSON).
RequestFailed(resp) ==
  resp.kind = "error"

\* The answer arrived and is not what the service expects: docs[0] has an empty
\* author_name list, or a subject that is no string.
Malformed(resp) ==
  /\ resp.kind = "doc"
  /\ \/ resp.author_name = <<>>
     \/ \E i \in 1..Len(resp.subject) : resp.subject[i] = NotAString

\* C13: when the external lookup fails (timeout, network error, malformed
\* response), no exception reaches the caller of classify_book and the result is
\* built from the remaining strategies: the title keywords, then the filename
\* author; category and sub_genre may both stay None.
C13_LookupFailureAbsorbed ==
  (cb.done /\ cb.out.live /\ (RequestFailed(cb.resp) \/ Malformed(cb.resp))) =>
    /\ ~cb.out.raised
    /\ LastCall \in {"title", "filename"}
    /\ \E t \in {classify_from_title(PathStem(cb.filepath))} :
         IF Truthy(t[1]) /\ Truthy(t[2])
         THEN cb.out.result.category = t[1] /\ cb.out.result.sub_genre = t[2]
         ELSE cb.out.result.category = None /\ cb.out.result.sub_genre = None
    /\ cb.out.result.metadata_source # "api"

\* ---- C14 ----

\* A step that answers POST /reorganize-preview.
PreviewStep ==
  requests' = requests + 1 /\ reorg'.op = "preview"

C15_InvalidOperationRejectedFirst ==
  (reorg.op = "reorganize" /\ reorg.req.operation \notin {"move", "copy"}) =>
    /\ reorg.pc = "idle" /\ reorg.exc = "ValueError" /\ reorg.status = 400
    /\ reorg.ebooks = <<>> /\ reorg.steps = <<>> /\ reorg.result = ReorganizeResult
    /\ fs = reorg.started_on.fs
    /\ db = reorg.started_on.db /\ session = reorg.started_on.db

\* A rejected request on a library in which a valid operation would have had a
\* file to move.
C15_Witness ==
  /\ reorg.op = "reorganize" /\ reorg.req.operation = "link"
  /\ reorg.exc = "ValueError"
  /\ \E i \in DOMAIN db :
       /\ _is_classified(db[i]) /\ db[i].cloud_file_path # None
       /\ IsFile(fs, db[i].cloud_file_path)
       /\ ~Exists(fs, compute_target_path(db[i], reorg.req.destination, TRUE))

\* ---- C16 ----

\* The genre, lower-cased, equals the lower-cased name or a lower-cased alias
\* of the sub-genre cg of TAXONOMY.
DeclaredUnder(genre_lower, cg) ==
  \/ genre_lower = TAXONOMY_LOWER[cg[1]][cg[2]].name
  \/ \E a \in 1..Len(TAXONOMY_LOWER[cg[1]][cg[2]].aliases) :
       genre_lower = TAXONOMY_LOWER[cg[1]][cg[2]].aliases[a]

\* The (Category, SubGenre) pair of the sub-genre cg.
PairOf(cg) ==
  <<TAXONOMY[cg[1]].name, TAXONOMY[cg[1]].subgenres[cg[2]].name>>

\* C16: for every input that equals, case-insensitively, a sub-genre name
\* (other than 'Other') or an alias of the Taxonomy, classify_genre returns the
\* (Category, SubGenre) this name or alias is declared under, and a second call
\* with the same input returns the same pair.
C16_DeclaredNameGetsDeclaredPair ==
  (call.fn = "classify_genre" /\ call.n >= 1) =>
    \E genre_lower \in {lower(call.arg)} :
       \A cg \in MatchedSubgenres :
          DeclaredUnder(genre_lower, cg) =>
            /\ call.ret = PairOf(cg)
            /\ call.n = 2 => call.again = call.ret

\* ---- C17 ----

\* The input is rejected before the taxonomy is looked at: empty, blacklisted or too long.
RejectedGenre(raw_genre) ==
  ~Truthy(raw_genre) \/ GenreBlacklisted(raw_genre) \/ Len(raw_genre) > MaxGenreLen

\* C17: for an input that is not rejected, classify_genre returns
\* (Non-Fiction, Other) when the input contains 'non-fiction' or 'nonfiction'
\* and equals no sub-genre name or alias, and (Fiction, Other) when it contains
\* 'fiction' but not 'non' and matches no sub-genre.
C17_BroadCategories ==
  (call.fn = "classify_genre" /\ call.n >= 1 /\ ~RejectedGenre(call.arg)) =>
    \E genre_lower \in {strip(lower(call.arg))} :
       /\ ( /\ Contains(genre_lower, "non-fiction") \/ Contains(genre_lower, "nonfiction")
            /\ \A cg \in MatchedSubgenres : ~DeclaredUnder(genre_lower, cg) )
          => call.ret = <<"Non-Fiction", "Other">>
       /\ ( /\ Contains(genre_lower, "fiction") /\ ~Contains(genre_lower, "non")
            /\ ScanTaxonomy(genre_lower, 1) = NoMatch )
          => call.ret = <<"Fiction", "Other">>

\* ---- C18 ----

\* A URL: the input starts with a scheme or with 'www.'.
LooksLikeUrl(genre_lower) ==
  StartsWith(genre_lower, "http://") \/ StartsWith(genre_lower, "https://")
    \/ StartsWith(genre_lower, "www.")

\* The junk values of a genre field: a URL, digits only, at most 2 characters,
\* the library-catalog separator ' -- ' anywhere, more than 50 characters.
JunkGenre(raw_genre) ==
  \/ LooksLikeUrl(lower(raw_genre))
  \/ AllDigits(raw_genre)
  \/ Len(raw_genre) \in 1..2
  \/ Contains(raw_genre, " -- ")
  \/ Len(raw_genre) > MaxGenreLen

\* C18: classify_genre returns (None, None) for every junk input, whatever
\* genre words the input also contains.
C18_JunkIsRejected ==
  (call.fn = "classify_genre" /\ call.n >= 1 /\ JunkGenre(call.arg)) => call.ret = NoMatch

\* ---- C19 ----

\* The call returned the pair of the table entry with the key.
FolderPair(key) ==
  IF \E i \in 1..Len(FOLDER_TO_TAXONOMY) : FOLDER_TO_TAXONOMY[i][1] = key
  THEN \E i \in {CHOOSE i \in 1..Len(FOLDER_TO_TAXONOMY) : FOLDER_TO_TAXONOMY[i][1] = key} :
         call.ret = <<FOLDER_TO_TAXONOMY[i][2], FOLDER_TO_TAXONOMY[i][3]>>
  ELSE FALSE

\* The folder name, lower-cased, is a key of the table or contains one.
FolderMatches(folder_name) ==
  \E i \in 1..Len(FOLDER_TO_TAXONOMY) : Contains(folder_name, FOLDER_KEYS_LOWER[i])

\* C19: classify_from_folder looks at the ancestor folder names nearest first
\* and the first one that matches decides: a name that is a table key gets the
\* pair of that key, and a name that embeds a genre phrase gets the pair of
\* that phrase, so that 'my_science_fiction_books' is (Fiction, Science Fiction).
C19_FirstMatchingFolderDecides ==
  (call.fn = "classify_from_folder" /\ call.n >= 1) =>
    \E names \in {ParentNames(call.arg)} :
       /\ (\A i \in 1..Len(names) : ~FolderMatches(lower(names[i]))) => call.ret = NoMatch
       /\ \A i \in 1..Len(names) :
            ( /\ \A j \in 1..(i - 1) : ~FolderMatches(lower(names[j]))
              /\ FolderKeyIndex(lower(names[i])) # 0 )
            => FolderPair(lower(names[i]))
       /\ \A i \in 1..Len(names) :
            ( /\ \A j \in 1..(i - 1) : ~FolderMatches(lower(names[j]))
              /\ Contains(lower(names[i]), "science_fiction") )
            => call.ret = <<"Fiction", "Science Fiction">>

\* ---- C20 ----

\* C20: clean_author_name removes a trailing role suffix, a trailing life-date
\* range and trailing punctuation also when several of them occur together
\* ('Charles Dickens, 1812-1870, author.' and 'Isaac Asimov, 1920-1992, author'
\* become the bare name), and its result is a fixed point: cleaning a cleaned
\* name changes nothing.
C20_CleaningIsAFixedPoint ==
  (call.fn = "clean_author_name" /\ call.n >= 1) =>
    /\ call.arg = "Charles Dickens, 1812-1870, author." => call.ret = "Charles Dickens"
    /\ call.arg = "Isaac Asimov, 1920-1992, author" => call.ret = "Isaac Asimov"
    /\ call.n = 2 => call.again = call.ret

\* ---- C21 ----

\* A run that was interrupted in its loop.
ReorganizeWasInterrupted ==
  reorg.op = "reorganize" /\ reorg.pc = "idle" /\ reorg.exc = "KeyboardInterrupt"

\* The step in which a run leaves its loop and returns.
ReturnStep ==
  reorg.pc = "exec" /\ reorg.ebooks = <<>> /\ reorg'.pc = "idle"

\* The committed rows change only in the return step of a run with a
\* succeeded operation, and then every changed path is committed at once.
C21_CommitOnlyAtReturn ==
  /\ db' # db => ReturnStep /\ reorg.result.succeeded > 0 /\ db' = session
  /\ (ReturnStep /\ reorg'.exc = NoExc) =>
       db' = IF reorg.result.succeeded > 0 THEN session ELSE db

\* After an interruption of a 'move' run the committed rows are those the run
\* started on: a record whose file was moved still names the path the file
\* was moved away from.
C21_InterruptedRunKeepsOldPaths ==
  (ReorganizeWasInterrupted /\ reorg.req.operation = "move") =>
    /\ db = reorg.started_on.db
    /\ \A k \in 1..Len(reorg.steps) :
         reorg.steps[k].outcome = "succeeded" =>
           /\ db[reorg.steps[k].ebook_id].cloud_file_path = reorg.steps[k].source
           /\ ~IsFile(fs, reorg.steps[k].source) \/
                \E j \in 1..Len(reorg.steps) : reorg.steps[j].target = reorg.steps[k].source

\* C21: execute_reorganization performs no commit while it iterates over the
\* records: the changed stored paths are committed exactly once, after the last
\* record, and only if at least one operation succeeded; an interruption in
\* the middle of a 'move' batch leaves the files that were already moved with
\* their old stored path.
C21_SingleCommitAfterLoop ==
  [](C21_InterruptedRunKeepsOldPaths) /\ [][C21_CommitOnlyAtReturn]_vars

\* An interrupted 'move' run whose first record was moved: its file is gone
\* from the path the committed row still names.
C21_Witness ==
  /\ ReorganizeWasInterrupted /\ reorg.req.operation = "move"
  /\ reorg.steps[1].outcome = "succeeded"
  /\ ~IsFile(fs, reorg.steps[1].source)
  /\ db[reorg.steps[1].ebook_id].cloud_file_path = reorg.steps[1].source

\* ---- C22 ----

\* Entries i and j of lookups are query_openlibrary calls for the same
\* (title, author) pair, i before j, with no clear_cache between them.
SamePairNoClear(i, j) ==
  /\ i < j
  /\ lookups[i].op = "query" /\ lookups[j].op = "query"
  /\ lookups[i].title = lookups[j].title /\ lookups[i].author = lookups[j].author
  /\ \A k \in i..j : lookups[k].op # "clear"

\* C22: in a sequence of query_openlibrary calls without clear_cache at most
\* one live request is made per (title, author) pair: the outcome of the first
\* call for the pair, a hit, an empty response or a failure, is in the cache,
\* and every later call with the pair returns that outcome without a request.
C22_OneLiveRequestPerPair ==
  /\ \A i, j \in 1..Len(lookups) :
       SamePairNoClear(i, j) => ~lookups[j].live /\ lookups[j].ret = lookups[i].ret
  /\ \A i \in 1..Len(lookups) :
       (lookups[i].live /\ \A k \in i..Len(lookups) : lookups[k].op # "clear") =>
         \E cache_key \in {CacheKey(lookups[i].title, lookups[i].author)} :
            cache_key \in DOMAIN API_CACHE /\ API_CACHE[cache_key] = lookups[i].ret

\* Three calls for one pair: the first request failed, the server would have
\* answered the later ones, and they returned the cached failure without asking.
C22_Witness ==
  /\ Len(lookups) = 3
  /\ SamePairNoClear(1, 2) /\ SamePairNoClear(2, 3)
  /\ lookups[1].live /\ ~lookups[1].slept /\ ~lookups[1].ret.found
  /\ ~lookups[2].live /\ ~lookups[3].live /\ lookups[3].ret = lookups[1].ret

\* ---- C23 ----

\* C23: after every live request made by query_openlibrary, whether it
\* succeeded or failed, the delay API_RATE_LIMIT_DELAY runs before the function
\* returns, so that two consecutive live requests are always separated by the
\* delay.
C23_DelayAfterEveryLiveRequest ==
  \A i \in 1..Len(lookups) :
     (lookups[i].op = "query" /\ lookups[i].live) => lookups[i].slept

\* ---- C24 ----

\* In the step a run resolves a target, nothing is at that target: the
\* existence check of the run passes.
C24_CheckPasses ==
  \A r \in 1..NumRuns :
     (runs.run[r].pc = "check" /\ runs'.run[r].pc = "act") =>
       ~Exists(fs, runs'.run[r].target)

\* A file operation that succeeded on a target at which a file was when it
\* began: an earlier operation of another run wrote that file to the same
\* target, and the later operation put its own file in its place.
C24_LaterOperationReplaces ==
  \A k \in 1..Len(runs.log) :
     (runs.log[k].outcome = "succeeded" /\ runs.log[k].replaced # None) =>
       /\ runs.log[k].written = runs.log[k].content
       /\ \E j \in 1..(k - 1) :
            /\ runs.log[j].run # runs.log[k].run
            /\ runs.log[j].outcome = "succeeded"
            /\ runs.log[j].target = runs.log[k].target
            /\ runs.log[j].content = runs.log[k].replaced

\* C24: collision resolution is not safe across concurrent runs: two
\* interleaved execute_reorganization runs with the same destination both pass
\* the existence check for one target path before either writes (no lock
\* between check and act), both resolve to that target, and the later move or
\* copy replaces the file the earlier one wrote.
C24_ConcurrentRunsReplaceFiles ==
  [](C24_LaterOperationReplaces) /\ [][C24_CheckPasses]_vars

\* Two 'move' runs put the two copies of Dune at the same target: the copy the
\* first run moved there is on the disk no more.
C24_Witness ==
  /\ Len(runs.log) = 2
  /\ runs.log[1].run # runs.log[2].run
  /\ runs.log[1].outcome = "succeeded" /\ runs.log[2].outcome = "succeeded"
  /\ runs.log[1].target = DuneTarget /\ runs.log[2].target = DuneTarget
  /\ runs.log[2].replaced = runs.log[1].content
  /\ runs.log[1].content # runs.log[2].content
  /\ \A p \in DOMAIN fs.files : fs.files[p] # runs.log[1].content

\* ---- C25 ----

\* The run that returned is a 'move' run that came directly after a returned
\* run with the same arguments.
SecondMoveRun ==
  /\ ReorganizeReturned /\ reorg.req.operation = "move"
  /\ reorg.prev.op = "reorganize" /\ reorg.prev.status = 200 /\ reorg.prev.req = reorg.req

\* Record i was, when the run started, a record of the run whose file was at
\* the path compute_target_path gives for it.
AtCanonicalTarget(i) ==
  \E ebook \in {reorg.started_on.db[i]} :
     /\ Truthy(ebook.cloud_file_path)
     /\ IsFile(reorg.started_on.fs, ebook.cloud_file_path)
     /\ _is_classified(ebook) \/ reorg.req.include_unclassified
     /\ ebook.cloud_file_path =
          compute_target_path(ebook, reorg.req.destination, _is_classified(ebook))

\* C25: reorganization by 'move' is idempotent: a second run with the same
\* destination and no other change leaves every file that is at its canonical
\* target at that path (no ' (n)' suffix is added) and leaves every stored
\* path unchanged.
C25_SecondMoveRunChangesNothing ==
  SecondMoveRun =>
    /\ \A i \in DOMAIN db :
         AtCanonicalTarget(i) =>
           /\ IsFile(fs, reorg.started_on.db[i].cloud_file_path)
           /\ db[i].cloud_file_path = reorg.started_on.db[i].cloud_file_path
    /\ \A i \in DOMAIN db : db[i].cloud_file_path = reorg.started_on.db[i].cloud_file_path

\* ---- C26 ----

\* The file with content c is at the path p.
FileAt(disk, p, c) ==
  IsFile(disk, p) /\ disk.files[p] = c

\* C26: in one sequential execute_reorganization run no move or copy writes
\* to a path that exists at that moment, also when the computed target of one
\* record is the source path of another: no file is overwritten or lost, and
\* every file that was there before the run is afterwards at its old path or
\* at the path path_mappings records for that path.
C26_NoFileOverwrittenOrMisplaced ==
  reorg.op = "reorganize" =>
    /\ \A k \in 1..Len(reorg.steps) :
         reorg.steps[k].attempted => ~reorg.steps[k].target_existed
    /\ \A p \in DOMAIN reorg.started_on.fs.files :
         \E q \in DOMAIN fs.files : fs.files[q] = reorg.started_on.fs.files[p]
    /\ \A p \in DOMAIN reorg.started_on.fs.files :
         \/ FileAt(fs, p, reorg.started_on.fs.files[p])
         \/ /\ p \in DOMAIN reorg.result.path_mappings
            /\ FileAt(fs, reorg.result.path_mappings[p], reorg.started_on.fs.files[p])

\* ---- C27 ----

\* The iterations of the returned batch call that handled a stored record.
HandledSteps ==
  {k \in 1..Len(batch.steps) : batch.steps[k].ebook_id \in DOMAIN last.before}

\* C27: in the result of batch_classify_ebooks each handled record, whether
\* handled by an override or by the automatic classification, is counted in
\* exactly one of newly_classified, already_classified and failed; a record
\* counted as failed is counted in neither of the other two nor in
\* total_processed, and its stored category and sub_genre are the ones it had
\* before the call.
C27_HandledRecordInOneCounter ==
  BatchReturned =>
    \A k \in HandledSteps :
      LET s == batch.steps[k]
      IN /\ s.newly_classified + s.already_classified + s.failed = 1
         /\ s.failed = 1 =>
              /\ s.newly_classified = 0 /\ s.already_classified = 0
              /\ s.total_processed = 0
              /\ db[s.ebook_id].category = last.before[s.ebook_id].category
              /\ db[s.ebook_id].sub_genre = last.before[s.ebook_id].sub_genre

\* ---- C28 ----

\* classify_single_ebook was called with force_reclassify=True on record 1 and returned.
ForcedReclassified ==
  call.fn = "classify_single_ebook" /\ call.n = 1 /\ last.exc = NoExc

\* C28: classify_single_ebook with force_reclassify=True on a record whose
\* stored (category, sub_genre) is a pair of the Taxonomy with a sub_genre other
\* than 'Other' leaves the stored pair as it was.
C28_ForcedReclassifyKeepsTaxonomyPair ==
  ForcedReclassified =>
    /\ db[1].category = last.before[1].category
    /\ db[1].sub_genre = last.before[1].sub_genre

\* ---- C29 ----

\* classify_book was called and returned a ClassificationResult.
BookClassified ==
  cb.done /\ ~cb.out.raised

\* C29: every ClassificationResult returned by classify_book has category and
\* sub_genre either both set or both None; its metadata_source is 'unknown'
\* exactly if category, sub_genre and author are all None; and with
\* metadata_source 'filename' its category and sub_genre are None.
C29_ResultFieldsAgree ==
  BookClassified =>
    \E result \in {cb.out.result} :
      /\ Truthy(result.category) <=> Truthy(result.sub_genre)
      /\ ~Truthy(result.category) => result.category = None
      /\ ~Truthy(result.sub_genre) => result.sub_genre = None
      /\ result.metadata_source = "unknown" <=>
           (result.category = None /\ result.sub_genre = None /\ result.author = None)
      /\ result.metadata_source = "filename" =>
           (result.category = None /\ result.sub_genre = None)

\* A call found nothing but an author in the file name.
C29_Witness ==
  /\ BookClassified
  /\ cb.out.result.metadata_source = "filename"
  /\ cb.out.result.author # None
  /\ cb.out.calls = <<"folder", "api", "title", "filename">>

\* ---- C30 ----

RECURSIVE SumOfCounts(_, _)
\* The sum of the counts of a breakdown over the keys keys.
SumOfCounts(counts, keys) ==
  IF keys = {} THEN 0
  ELSE LET k == CHOOSE x \in keys : TRUE
       IN counts[k] + SumOfCounts(counts, keys \ {k})

\* get_organization_stats was called with a source_path that filters.
StatsReturnedForPath ==
  call.fn = "get_organization_stats" /\ call.n = 1 /\ Truthy(call.arg)

\* C30: get_organization_stats called with a source_path counts only the
\* records under that prefix in every figure: classified_books +
\* unclassified_books = total_books, and the counts of by_category, like those
\* of by_sub_genre, sum to at most total_books.
C30_StatsCountOnlyThePrefix ==
  StatsReturnedForPath =>
    /\ call.ret.total_books =
         Cardinality({i \in DOMAIN db : UnderSourcePath(db[i], call.arg)})
    /\ call.ret.classified_books + call.ret.unclassified_books = call.ret.total_books
    /\ SumOfCounts(call.ret.by_category, DOMAIN call.ret.by_category) <= call.ret.total_books
    /\ SumOfCounts(call.ret.by_sub_genre, DOMAIN call.ret.by_sub_genre) <= call.ret.total_books
====
